---- MODULE Spec2Model ----
(***************************************************************************)
(* Auto PPT Generator: the outline pipeline (heuristic parser, schema      *)
(* validation, slide-count normalizer), the template safety check, the     *)
(* LLM retry loop and the request handlers, as state machines.             *)
(*                                                                         *)
(* Text is a sequence of characters; a character is a one-character        *)
(* string, or one of the named code points below.                          *)
(***************************************************************************)
EXTENDS Integers, Sequences, FiniteSets, TLC

\* ------------------------------------------------------------------ text

\* A string literal as a sequence of characters.
S(str) == [i \in 1..Len(str) |-> SubSeq(str, i, i)]

Rep(c, n) == [i \in 1..n |-> c]

\* Code points that a TLA+ string literal cannot hold.
Ell == "U+2026"       \* the ellipsis
NUL == "U+0000"       \* a control character that is no whitespace
Bullet == "U+2022"    \* the bullet of SUB_BULLET_PREFIX
EmDash == "U+2014"
EnDash == "U+2013"

\* Python's whitespace (re \s, str.strip) within the alphabet.
WsChars == {" ", "\n", "\t", "\r"}
\* ord(ch) < 32
CtrlChars == {"\n", "\t", "\r", NUL}
\* str.splitlines boundaries within the alphabet.
LineBreaks == {"\n", "\r"}

IsWs(c) == c \in WsChars

MinOf(a, b) == IF a <= b THEN a ELSE b
MaxOf(a, b) == IF a >= b THEN a ELSE b

\* The value v under the name that F gives it: v is worked out once.
Let(v, F(_)) == F(v)

Take(seq, n) == SubSeq(seq, 1, MinOf(n, Len(seq)))
Drop(seq, n) == SubSeq(seq, n + 1, Len(seq))

\* The first index >= i where P holds, Len(s) + 1 when there is none.
FirstFrom(s, i, P(_)) ==
    IF i > Len(s) THEN Len(s) + 1
    ELSE CHOOSE j \in i..(Len(s) + 1) :
            /\ j > Len(s) \/ P(s[j])
            /\ \A k \in i..(j - 1) : ~P(s[k])

\* The last index where P holds, 0 when there is none.
LastWhere(s, P(_)) ==
    CHOOSE j \in 0..Len(s) :
        /\ j = 0 \/ P(s[j])
        /\ \A k \in (j + 1)..Len(s) : ~P(s[k])

LStrip(s) == SubSeq(s, FirstFrom(s, 1, LAMBDA c : ~IsWs(c)), Len(s))

RStrip(s) == SubSeq(s, 1, LastWhere(s, LAMBDA c : ~IsWs(c)))

Strip(s) == RStrip(LStrip(s))

\* re.sub(r"\s+", " ", s.strip())
WsRunsToSpace(s) ==
    Let(Strip(s), LAMBDA t :
        SelectSeq([i \in 1..Len(t) |->
                     IF IsWs(t[i]) THEN (IF IsWs(t[i - 1]) THEN "DROP" ELSE " ") ELSE t[i]],
                  LAMBDA c : c # "DROP"))

Range(f) == {f[i] : i \in DOMAIN f}

UpperCase == S("ABCDEFGHIJKLMNOPQRSTUVWXYZ")
LowerCase == S("abcdefghijklmnopqrstuvwxyz")
LowerOf == [c \in Range(UpperCase) |-> LowerCase[CHOOSE i \in 1..26 : UpperCase[i] = c]]
LowerChar(c) == IF c \in DOMAIN LowerOf THEN LowerOf[c] ELSE c
Lower(s) == [i \in 1..Len(s) |-> LowerChar(s[i])]

Digits == S("0123456789")
RECURSIVE IntToStr(_)
IntToStr(n) ==
    IF n < 0 THEN <<"-">> \o IntToStr(0 - n)
    ELSE IF n < 10 THEN <<Digits[n + 1]>>
    ELSE IntToStr(n \div 10) \o <<Digits[(n % 10) + 1]>>

\* s[i..] starts with sub
StartsAt(s, i, sub) ==
    /\ i + Len(sub) - 1 <= Len(s)
    /\ \A k \in 1..Len(sub) : s[i + k - 1] = sub[k]
StartsWith(s, sub) == StartsAt(s, 1, sub)
EndsWith(s, sub) == Len(sub) <= Len(s) /\ StartsAt(s, Len(s) - Len(sub) + 1, sub)
\* sub in s
Contains(s, sub) == \E i \in 1..(Len(s) - Len(sub) + 1) : StartsAt(s, i, sub)

\* The elements of a set of integers in increasing order.
SortedSeq(T) ==
    [k \in 1..Cardinality(T) |-> CHOOSE x \in T : Cardinality({y \in T : y < x}) = k - 1]

\* The index where a line break that starts at i ends.
BreakEnd(s, i) == IF s[i] = "\r" /\ i < Len(s) /\ s[i + 1] = "\n" THEN i + 1 ELSE i
\* The lines that the line breaks starting at B[1], B[2], ... delimit.
LinesBetween(s, B) ==
    [k \in 1..(Len(B) + 1) |->
        SubSeq(s, IF k = 1 THEN 1 ELSE BreakEnd(s, B[k - 1]) + 1,
                  IF k <= Len(B) THEN B[k] - 1 ELSE Len(s))]

\* str.splitlines(): "\r\n" is one line break, a trailing break opens no line.
SplitLines(s) ==
    Let(LinesBetween(s, SortedSeq({i \in 1..Len(s) :
                                     /\ s[i] \in LineBreaks
                                     /\ ~(s[i] = "\n" /\ i > 1 /\ s[i - 1] = "\r")})),
        LAMBDA lines : IF lines[Len(lines)] = <<>> THEN Take(lines, Len(lines) - 1) ELSE lines)

\* The concatenation of a sequence of sequences.
RECURSIVE FlattenRange(_, _, _)
FlattenRange(seqs, lo, hi) ==
    IF lo > hi THEN <<>>
    ELSE IF lo = hi THEN seqs[lo]
    ELSE FlattenRange(seqs, lo, (lo + hi) \div 2)
         \o FlattenRange(seqs, (lo + hi) \div 2 + 1, hi)
Flatten(seqs) == FlattenRange(seqs, 1, Len(seqs))

\* [f(x) for x in seq]
MapSeq(seq, f(_)) == [i \in 1..Len(seq) |-> f(seq[i])]

\* [f(x, i) for i, x in enumerate(seq, 1)]
MapIdx(seq, f(_, _)) == [i \in 1..Len(seq) |-> f(seq[i], i)]

NoDup(seq) == \A i, j \in 1..Len(seq) : i # j => seq[i] # seq[j]

\* ------------------------------------------------------------- optional

None == <<>>
Some(v) == <<v>>

\* ------------------------------------------------------- schemas.py

MAX_BULLETS_PER_SLIDE == 7
MAX_TITLE_CHARS == 200
MAX_BULLET_CHARS == 200
MAX_NOTES_CHARS == 600
MAX_TOTAL_SLIDES == 60

L_auto == S("auto")
L_TitleAndContent == S("Title and Content")
L_TwoContent == S("Two Content")
L_ContentWithCaption == S("Content with Caption")
L_PictureWithCaption == S("Picture with Caption")
L_Blank == S("Blank")

CANONICAL_LAYOUTS ==
    {L_auto, L_TitleAndContent, L_TwoContent, L_ContentWithCaption,
     L_PictureWithCaption, L_Blank}

LAYOUT_ALIASES ==
    << <<S("auto"), L_auto>>,
       <<S("title and content"), L_TitleAndContent>>,
       <<S("two content"), L_TwoContent>>,
       <<S("two-content"), L_TwoContent>>,
       <<S("twocontents"), L_TwoContent>>,
       <<S("content with caption"), L_ContentWithCaption>>,
       <<S("picture with caption"), L_PictureWithCaption>>,
       <<S("blank"), L_Blank>> >>

strip_controls(s) == SelectSeq(s, LAMBDA ch : ch \in {"\n", "\t"} \/ ch \notin CtrlChars)

collapse_ws(s) == WsRunsToSpace(s)

\* A cleaning that collapses whitespace before it removes control characters.
clean_text_collapse_first(s, limit) ==
    Let(strip_controls(collapse_ws(s)), LAMBDA t :
        IF Len(t) <= limit THEN t
        ELSE RStrip(Take(t, MaxOf(0, limit - 1))) \o <<Ell>>)

clean_text(s, limit) ==
    Let(collapse_ws(strip_controls(s)), LAMBDA t :
        IF Len(t) <= limit THEN t
        ELSE RStrip(Take(t, MaxOf(0, limit - 1))) \o <<Ell>>)

\* The first occurrences, in order.
FirstOccurrences(items) ==
    Let(SortedSeq({i \in 1..Len(items) : \A j \in 1..(i - 1) : items[j] # items[i]}),
        LAMBDA keep : [k \in 1..Len(keep) |-> items[keep[k]]])
\* A dedup that keeps every occurrence.
dedup_keep_all(items) == items

dedup_keep_order(items) == FirstOccurrences(items)

\* JSON-shaped input values (what json.loads, or a caller of the model class, hands over).
JAbsent == [k |-> "absent"]
JNull == [k |-> "null"]
JStr(s) == [k |-> "str", s |-> s]
JNum(n) == [k |-> "num", n |-> n]
JList(xs) == [k |-> "list", xs |-> xs]
\* A slide-shaped JSON object; extra: a key other than the four known ones is present.
JSlide(title, bullets, layout, notes, extra) ==
    [k |-> "dict", title |-> title, bullets |-> bullets, layout |-> layout,
     notes |-> notes, extra |-> extra]

\* Python truthiness: `not v`
Falsy(v) ==
    \/ v.k \in {"null", "absent"}
    \/ v.k = "str" /\ v.s = <<>>
    \/ v.k = "num" /\ v.n = 0
    \/ v.k = "list" /\ v.xs = <<>>

\* str(v) for the scalar kinds
PyStr(v) ==
    CASE v.k = "str" -> v.s
      [] v.k = "num" -> IntToStr(v.n)
      [] v.k = "null" -> S("None")
      [] OTHER -> S("{}")

\* str(v or "")
PyStrOrEmpty(v) == IF Falsy(v) THEN <<>> ELSE PyStr(v)

Ok(v) == [ok |-> TRUE, v |-> v]
Fail == [ok |-> FALSE]

\* The lines that _coerce_bullets takes from a value that is not None.
bullet_lines(value) ==
    CASE value.k = "str" -> SplitLines(value.s)
      [] value.k = "list" ->
           Flatten([i \in 1..Len(value.xs) |-> SplitLines(PyStr(value.xs[i]))])
      [] OTHER -> <<PyStr(value)>>

coerce_bullets(value) ==
    IF value.k = "null" THEN <<>>
    ELSE Take(dedup_keep_order(
                 SelectSeq(MapSeq(SelectSeq(MapSeq(bullet_lines(value), Strip),
                                            LAMBDA b : Strip(b) # <<>>),
                                  LAMBDA b : clean_text(b, MAX_BULLET_CHARS)),
                           LAMBDA b : b # <<>>)),
              MAX_BULLETS_PER_SLIDE)

canonical_layout(name) ==
    IF Falsy(name) THEN L_auto
    ELSE Let(Lower(Strip(PyStr(name))), LAMBDA key :
         Let({i \in 1..Len(LAYOUT_ALIASES) : LAYOUT_ALIASES[i][1] = key}, LAMBDA hit :
             IF hit = {} THEN L_auto
             ELSE LAYOUT_ALIASES[CHOOSE i \in hit : TRUE][2]))

\* OutlineSlide._v_title
slide_v_title(v) ==
    Let(clean_text(Strip(PyStrOrEmpty(v)), MAX_TITLE_CHARS), LAMBDA c :
        IF c = <<>> THEN S("Slide") ELSE c)

\* OutlineSlide._v_bullets_after, on the list the before-validator returned
slide_v_bullets_after(v) ==
    Take(dedup_keep_order(MapSeq(SelectSeq(v, LAMBDA b : b # <<>> /\ Strip(b) # <<>>),
                                 LAMBDA b : clean_text(b, MAX_BULLET_CHARS))),
         MAX_BULLETS_PER_SLIDE)

\* OutlineSlide._v_notes
slide_v_notes(v) ==
    IF v.k = "null" THEN None
    ELSE Let(clean_text(PyStr(v), MAX_NOTES_CHARS), LAMBDA cleaned :
             IF cleaned = <<>> THEN None ELSE Some(cleaned))

\* OutlineSlide(**r): the validated slide, or a ValidationError
OutlineSlide(r) ==
    IF r.extra \/ r.title.k = "absent" THEN Fail
    ELSE Ok([title |-> slide_v_title(r.title),
             bullets |-> IF r.bullets.k = "absent" THEN <<>>
                         ELSE slide_v_bullets_after(coerce_bullets(r.bullets)),
             layout |-> IF r.layout.k = "absent" THEN L_auto ELSE canonical_layout(r.layout),
             notes |-> IF r.notes.k = "absent" THEN None ELSE slide_v_notes(r.notes)])

\* OutlineSlide(title=..., bullets=[...], layout=..., notes=...) as main.py builds one
NewSlide(title, bullets, layout, notes) ==
    OutlineSlide(JSlide(JStr(title),
                        JList([i \in 1..Len(bullets) |-> JStr(bullets[i])]),
                        JStr(layout),
                        IF notes = None THEN JNull ELSE JStr(notes[1]),
                        FALSE)).v

\* Outline._v_title
outline_v_title(v) ==
    Let(clean_text(Strip(PyStrOrEmpty(v)), MAX_TITLE_CHARS), LAMBDA c :
        IF c = <<>> THEN S("Presentation") ELSE c)

\* Outline._v_slides_after
v_slides_after(slides) ==
    Let(SelectSeq(slides, LAMBDA s :
                     \/ s.title # <<>> /\ Strip(s.title) # <<>>
                     \/ \E i \in 1..Len(s.bullets) : Strip(s.bullets[i]) # <<>>),
        LAMBDA filtered :
            IF filtered = <<>>
            THEN <<NewSlide(S("Overview"), <<>>, L_auto, None)>>
            ELSE Take(filtered, MAX_TOTAL_SLIDES))

\* Outline._m_estimated_count; declared is None or Some(n)
m_estimated_count(slides, declared) ==
    IF declared = None THEN Len(slides)
    ELSE MaxOf(1, MinOf(MAX_TOTAL_SLIDES, declared[1]))

\* The outline-level validators, on slides that are validated already.
outline_validators(title, slides, declared) ==
    Let(v_slides_after(slides), LAMBDA sl :
        [title |-> outline_v_title(title),
         slides |-> sl,
         estimated_slide_count |-> m_estimated_count(sl, declared)])

\* Outline(title=..., slides=[OutlineSlide, ...], estimated_slide_count=n):
\* model instances are taken as they are, the outline-level validators run.
NewOutline(title, slides, declared) == outline_validators(JStr(title), slides, declared)

\* A raw outline; extra: a key other than the three known ones is present.
JOutline(title, slides, esc, extra) ==
    [k |-> "dict", title |-> title, slides |-> slides, estimated_slide_count |-> esc,
     extra |-> extra]

\* The number that a run of decimal digits writes
RECURSIVE DigitsValue(_)
DigitsValue(ds) ==
    IF ds = <<>> THEN 0
    ELSE 10 * DigitsValue(Take(ds, Len(ds) - 1))
         + (CHOOSE d \in 0..9 : Digits[d + 1] = ds[Len(ds)])

\* The integer that a string spells (blanks around it and a sign allowed), None when it
\* spells none
ParseInt(str) ==
    Let(Strip(str), LAMBDA t :
    Let(IF t # <<>> /\ t[1] \in {"+", "-"} THEN Tail(t) ELSE t, LAMBDA ds :
        IF ds = <<>> \/ \E i \in 1..Len(ds) : ds[i] \notin Range(Digits) THEN None
        ELSE Some(IF t[1] = "-" THEN 0 - DigitsValue(ds) ELSE DigitsValue(ds))))

\* int parsing of the declared count (pydantic's Optional[int]): a number is taken, a
\* string is taken when it spells an integer, anything else is a ValidationError
DeclaredCount(v) ==
    CASE v.k \in {"absent", "null"} -> Ok(None)
      [] v.k = "num" -> Ok(Some(v.n))
      [] v.k = "str" -> IF ParseInt(v.s) = None THEN Fail ELSE Ok(ParseInt(v.s))
      [] OTHER -> Fail

\* The entries of the "slides" value: a single dict stands for a list of one.
slide_items(v) ==
    IF v.k = "dict" THEN <<v>> ELSE IF v.k = "list" THEN v.xs ELSE <<>>

\* Outline(**raw): the validated outline, or a ValidationError
Outline(raw) ==
    Let(MapSeq(slide_items(raw.slides),
               LAMBDA it : IF it.k = "dict" THEN OutlineSlide(it) ELSE Fail),
        LAMBDA vs :
    Let(DeclaredCount(raw.estimated_slide_count), LAMBDA dc :
        IF \/ raw.extra
           \/ raw.title.k = "absent"
           \/ raw.slides.k \notin {"dict", "list"}
           \/ ~dc.ok
           \/ \E i \in 1..Len(vs) : ~vs[i].ok
        THEN Fail
        ELSE Ok(outline_validators(raw.title, [i \in 1..Len(vs) |-> vs[i].v], dc.v))))

\* outline.model_dump(), as the keyword arguments of a second Outline(**...)
model_dump(o) ==
    JOutline(JStr(o.title),
             JList([i \in 1..Len(o.slides) |->
                      JSlide(JStr(o.slides[i].title),
                             JList([j \in 1..Len(o.slides[i].bullets) |->
                                      JStr(o.slides[i].bullets[j])]),
                             JStr(o.slides[i].layout),
                             IF o.slides[i].notes = None THEN JNull
                             ELSE JStr(o.slides[i].notes[1]),
                             FALSE)]),
             JNum(o.estimated_slide_count),
             FALSE)

\* ----------------------------------------------------------- main.py

\* MIN_SLIDES and MAX_SLIDES of main.py (the parser has its own pair)
MAIN_MIN_SLIDES == 8
MAIN_MAX_SLIDES == 40

\* list.insert(idx, x), idx counted from 0
InsertAt(list, idx, x) == SubSeq(list, 1, idx) \o <<x>> \o SubSeq(list, idx + 1, Len(list))

normalize_slides(slides) ==
    MapSeq(slides, LAMBDA s :
        NewSlide(Let(Strip(s.title), LAMBDA t : IF t = <<>> THEN S("Slide") ELSE t),
                 SelectSeq(MapSeq(s.bullets, Strip), LAMBDA b : b # <<>>),
                 IF s.layout = <<>> THEN L_auto ELSE s.layout,
                 s.notes))

\* The inner while of _ensure_min_slides: the chunks of `extra` go in after slide i.
RECURSIVE InsertChunks(_, _, _, _, _, _)
InsertChunks(slides, i, s, extra, min_slides, max_slides) ==
    IF extra # <<>> /\ Len(slides) < min_slides /\ Len(slides) < max_slides
    THEN InsertChunks(
            InsertAt(slides, i + 1,
                     NewSlide(s.title \o S(" (cont.)"), Take(extra, 3), s.layout, None)),
            i + 1, s, Drop(extra, 3), min_slides, max_slides)
    ELSE [slides |-> slides, i |-> i]

\* The outer while of _ensure_min_slides; i counts from 0 as in the code.
RECURSIVE SplitDense(_, _, _, _)
SplitDense(slides, i, min_slides, max_slides) ==
    IF Len(slides) < min_slides /\ i < Len(slides) /\ Len(slides) < max_slides
    THEN IF Len(slides[i + 1].bullets) > 3
         THEN Let([slides[i + 1] EXCEPT !.bullets = Take(slides[i + 1].bullets, 3)],
                  LAMBDA s3 :
              Let(InsertChunks([slides EXCEPT ![i + 1] = s3], i, s3,
                               Drop(slides[i + 1].bullets, 3), min_slides, max_slides),
                  LAMBDA r : SplitDense(r.slides, r.i + 1, min_slides, max_slides)))
         ELSE SplitDense(slides, i + 1, min_slides, max_slides)
    ELSE slides

RECURSIVE PadSlides(_, _, _)
PadSlides(slides, min_slides, max_slides) ==
    IF Len(slides) < min_slides /\ Len(slides) < max_slides
    THEN PadSlides(Append(slides,
                          NewSlide(S("Slide ") \o IntToStr(Len(slides) + 1), <<>>, L_auto, None)),
                   min_slides, max_slides)
    ELSE slides

\* A minimum-slides step that splits and cuts but appends no slide.
ensure_min_slides_unpadded(outline, min_slides, max_slides) ==
    Let(Take(SplitDense(normalize_slides(outline.slides), 0, min_slides, max_slides),
             max_slides),
        LAMBDA slides : NewOutline(outline.title, slides, Some(Len(slides))))

ensure_min_slides(outline, min_slides, max_slides) ==
    Let(Take(PadSlides(SplitDense(normalize_slides(outline.slides), 0,
                                  min_slides, max_slides),
                       min_slides, max_slides),
             max_slides),
        LAMBDA slides : NewOutline(outline.title, slides, Some(Len(slides))))

\* The merge loop of _enforce_target_slides; i counts from 0 as in the code.
RECURSIVE MergeCont(_, _, _)
MergeCont(slides, i, merged) ==
    IF i < Len(slides)
    THEN LET cur == slides[i + 1]
         IN IF i + 1 < Len(slides) /\ StartsWith(slides[i + 2].title, cur.title)
            THEN MergeCont(slides, i + 2,
                           Append(merged,
                                  [cur EXCEPT !.bullets =
                                      Take(cur.bullets \o slides[i + 2].bullets, 8)]))
            ELSE MergeCont(slides, i + 1, Append(merged, cur))
    ELSE merged

\* The branches of _enforce_target_slides, on the normalized slides and the clamped target.
enforce_branches(title, slides, target, max_slides) ==
    IF Len(slides) < target
    THEN NewOutline(title,
                    Take(ensure_min_slides(NewOutline(title, slides, Some(Len(slides))),
                                           target, max_slides).slides,
                         target),
                    Some(target))
    ELSE Let(Take(IF Len(slides) > target THEN MergeCont(slides, 0, <<>>) ELSE slides,
                  target),
             LAMBDA kept : NewOutline(title, kept, Some(Len(kept))))

enforce_target_slides(outline, target_in, max_slides) ==
    enforce_branches(outline.title, normalize_slides(outline.slides),
                     MaxOf(1, MinOf(max_slides, target_in)), max_slides)

\* ---------------------------------------------------------- parser.py

\* MAX_BULLETS_PER_SLIDE of parser.py
PARSER_MAX_BULLETS_PER_SLIDE == 7
MAX_CHARS_PER_BULLET == 160
MAX_CHARS_PER_SLIDE == 800
MAX_SLIDES == 40
MIN_SLIDES == 3
\* DEFAULT_WORDS_PER_SLIDE = (60, 110)
WORDS_PER_SLIDE_MIN == 60
WORDS_PER_SLIDE_MAX == 110
SUB_BULLET_PREFIX == <<" ", " ", Bullet, " ">>
ALLOWED_LAYOUTS ==
    {L_auto, L_TitleAndContent, L_TwoContent, L_ContentWithCaption,
     L_PictureWithCaption, L_Blank}
\* the redaction marker
REDACTED == <<"[", Ell, "]">>

Letters == Range(UpperCase) \cup Range(LowerCase)
DigitChars == Range(Digits)
AlnumChars == Letters \cup DigitChars
\* re \w within the alphabet
WordChars == AlnumChars \cup {"_"}
HexChars == Range(S("abcdefABCDEF0123456789"))
EmailLocalChars == AlnumChars \cup {".", "_", "%", "+", "-"}
EmailDomainChars == AlnumChars \cup {".", "-"}
\* the terminators of RE_SENTENCES
CjkStop == "U+3002"
SentenceEnders == {CjkStop, "U+FF01", "U+FF1F", "!", "?", "."}

SetMin(T) == CHOOSE x \in T : \A y \in T : x <= y
SetMax(T) == CHOOSE x \in T : \A y \in T : x >= y

IsWordAt(s, i) == i >= 1 /\ i <= Len(s) /\ s[i] \in WordChars
\* re \b between s[i-1] and s[i]
WordB(s, i) == IsWordAt(s, i - 1) # IsWordAt(s, i)

\* The last index of the longest run of characters of C that starts at i (i - 1: none).
RunEnd(s, i, C) == IF i > Len(s) THEN i - 1 ELSE FirstFrom(s, i, LAMBDA c : c \notin C) - 1

\* The same for the characters outside C.
RunEndNot(s, i, C) == IF i > Len(s) THEN i - 1 ELSE FirstFrom(s, i, LAMBDA c : c \in C) - 1

\* The first index >= i that holds c, 0 when there is none.
IndexFrom(s, i, c) ==
    Let(FirstFrom(s, i, LAMBDA x : x = c), LAMBDA j : IF j > Len(s) THEN 0 ELSE j)

\* A regular expression is given by its match-end operator End: End(s, i) is the end of
\* the match that starts at index i of s, 0 when the pattern does not match there. The
\* functions of re take the leftmost non-overlapping matches: ms holds the starts at
\* which the pattern matches, me[i] is the end of the match that starts at i, and the
\* scan goes on after the end of the match it took. Taken(...) lists the starts of the
\* matches the scan takes, found by halving the number of steps.
NextMatch(s, ms, from) ==
    LET starts == {i \in ms : i >= from}
    IN IF starts = {} THEN 0 ELSE SetMin(starts)

RECURSIVE TakenSteps(_, _, _, _, _)
TakenSteps(s, ms, me, st, n) ==
    IF st.from = 0 \/ n = 0 THEN st
    ELSE IF n = 1
    THEN Let(NextMatch(s, ms, st.from), LAMBDA i :
             IF i = 0 THEN [from |-> 0, taken |-> st.taken]
             ELSE [from |-> me[i] + 1, taken |-> Append(st.taken, i)])
    ELSE TakenSteps(s, ms, me, TakenSteps(s, ms, me, st, n \div 2), n - n \div 2)

Taken(s, ms, me, from) ==
    TakenSteps(s, ms, me, [from |-> from, taken |-> <<>>], Cardinality(ms) + 1).taken

\* The text between the taken matches tk.
Pieces(s, me, tk, from) ==
    [k \in 1..(Len(tk) + 1) |->
        SubSeq(s, IF k = 1 THEN from ELSE me[tk[k - 1]] + 1,
                  IF k <= Len(tk) THEN tk[k] - 1 ELSE Len(s))]

\* The pieces with rep[i] in place of the match taken at i.
Spliced(pieces, tk, rep) ==
    Flatten([k \in 1..(2 * Len(tk) + 1) |->
                IF k % 2 = 1 THEN pieces[(k + 1) \div 2] ELSE rep[tk[k \div 2]]])

\* pattern.split(s)
ReSplitFrom(s, ms, me, from) == Pieces(s, me, Taken(s, ms, me, from), from)

\* pattern.sub(rep, s)
ReSubFrom(s, ms, me, rep, from) ==
    Let(Taken(s, ms, me, from), LAMBDA tk : Spliced(Pieces(s, me, tk, from), tk, rep))

\* pattern.sub(Repl, s) for the pattern with match-end operator End; Repl(s, i) is the
\* replacement of the match that starts at i.
ReSub(s, End(_, _), Repl(_, _)) ==
    Let([i \in 1..Len(s) |-> End(s, i)], LAMBDA me :
    Let({i \in 1..Len(s) : me[i] > 0}, LAMBDA ms :
        IF ms = {} THEN s
        ELSE ReSubFrom(s, ms, me, [i \in 1..Len(s) |-> Repl(s, i)], 1)))

word_count(s) ==
    Cardinality({i \in 1..Len(s) : IsWordAt(s, i) /\ ~IsWordAt(s, i - 1)})

parser_collapse_ws(s) == WsRunsToSpace(s)

truncate(s, n) ==
    Let(parser_collapse_ws(s), LAMBDA t :
        IF Len(t) <= n THEN t ELSE RStrip(Take(t, MaxOf(0, n - 1))) \o <<Ell>>)

chunks(lst, n) ==
    [k \in 1..((Len(lst) + n - 1) \div n) |-> SubSeq(lst, (k - 1) * n + 1, MinOf(k * n, Len(lst)))]

dedup_preserve_order(items) == FirstOccurrences(items)

\* RE_IMG_MD  !\[.*?\]\(.*?\)  ("." stops at a line feed)
ImgEnd(s, i) ==
    IF ~StartsAt(s, i, S("![")) THEN 0
    ELSE LET stop == RunEndNot(s, i + 2, {"\n"})
             js == {j \in (i + 2)..stop : StartsAt(s, j, S("](")) /\ j + 1 <= stop}
         IN IF js = {} THEN 0
            ELSE LET k == IndexFrom(s, SetMin(js) + 2, ")")
                 IN IF k = 0 \/ k > stop THEN 0 ELSE k

\* RE_LINK_MD  \[([^\]]+)\]\([^)]+\)
LinkClose(s, i) == IndexFrom(s, i + 1, "]")
LinkEnd(s, i) ==
    IF ~(i <= Len(s) /\ s[i] = "[") THEN 0
    ELSE LET j == LinkClose(s, i)
         IN IF j < i + 2 \/ ~StartsAt(s, j, S("](")) THEN 0
            ELSE LET k == IndexFrom(s, j + 2, ")")
                 IN IF k < j + 3 THEN 0 ELSE k

\* RE_HTML_TAG  <[^>]+>
TagEnd(s, i) ==
    IF ~(i <= Len(s) /\ s[i] = "<") THEN 0
    ELSE LET k == IndexFrom(s, i + 1, ">") IN IF k < i + 2 THEN 0 ELSE k

\* group 1 of RE_LINK_MD for the match that starts at i
LinkText(s, i) == SubSeq(s, i + 1, LinkClose(s, i) - 1)
Nothing(s, i) == <<>>

strip_markup(text) ==
    ReSub(ReSub(ReSub(text, ImgEnd, Nothing), LinkEnd, LinkText), TagEnd, Nothing)

\* RE_EMAIL  \b[a-zA-Z0-9._%+-]+@[a-zA-Z0-9.-]+\.[a-zA-Z]{2,}\b
EmailEnd(s, i) ==
    IF ~(WordB(s, i) /\ s[i] \in EmailLocalChars) THEN 0
    ELSE LET a == RunEnd(s, i, EmailLocalChars) + 1
         IN IF ~(a <= Len(s) /\ s[a] = "@") THEN 0
            ELSE LET de == RunEnd(s, a + 1, EmailDomainChars)
                     ps == {p \in (a + 2)..de :
                              /\ s[p] = "."
                              /\ RunEnd(s, p + 1, Letters) - p >= 2
                              /\ ~IsWordAt(s, RunEnd(s, p + 1, Letters) + 1)}
                 IN IF ps = {} THEN 0 ELSE RunEnd(s, SetMax(ps) + 1, Letters)

\* RE_URL  \bhttps?://\S+\b
UrlEnd(s, i) ==
    IF ~(WordB(s, i) /\ StartsAt(s, i, S("http"))) THEN 0
    ELSE LET j == IF StartsAt(s, i + 4, S("s://")) THEN i + 8
                  ELSE IF StartsAt(s, i + 4, S("://")) THEN i + 7 ELSE 0
         IN IF j = 0 THEN 0
            ELSE LET es == {e \in j..RunEndNot(s, j, WsChars) :
                              IsWordAt(s, e) # IsWordAt(s, e + 1)}
                 IN IF es = {} THEN 0 ELSE SetMax(es)

\* RE_OPENAI_KEY  \bsk-[A-Za-z0-9]{16,}\b
KeyEnd(s, i) ==
    IF ~(WordB(s, i) /\ StartsAt(s, i, S("sk-"))) THEN 0
    ELSE LET e == RunEnd(s, i + 3, AlnumChars)
         IN IF e - (i + 3) + 1 >= 16 /\ ~IsWordAt(s, e + 1) THEN e ELSE 0

\* RE_HEX_SECRET  \b[a-fA-F0-9]{32,128}\b
HexEnd(s, i) ==
    IF ~(WordB(s, i) /\ s[i] \in HexChars) THEN 0
    ELSE LET e == RunEnd(s, i, HexChars)
         IN IF e - i + 1 >= 32 /\ e - i + 1 <= 128 /\ ~IsWordAt(s, e + 1) THEN e ELSE 0

\* RE_PHONE  \b(?:\+?\d[\d\-\s]{7,}\d)\b
PhoneEnd(s, i) ==
    LET d0 == IF s[i] = "+" THEN i + 1 ELSE i
    IN IF ~(WordB(s, i) /\ d0 <= Len(s) /\ s[d0] \in DigitChars) THEN 0
       ELSE LET es == {e \in (d0 + 8)..RunEnd(s, d0 + 1, DigitChars \cup {"-"} \cup WsChars) :
                          s[e] \in DigitChars /\ ~IsWordAt(s, e + 1)}
            IN IF es = {} THEN 0 ELSE SetMax(es)

\* The digits that (?:\d[ -]*?) reaches from p, at most 19 of them.
RECURSIVE DigitChain(_, _, _)
DigitChain(s, p, acc) ==
    LET q == RunEnd(s, p + 1, {" ", "-"}) + 1
    IN IF Len(acc) < 18 /\ q <= Len(s) /\ s[q] \in DigitChars
       THEN DigitChain(s, q, Append(acc, p))
       ELSE Append(acc, p)

\* RE_CCARD  \b(?:\d[ -]*?){13,19}\b
CCardEnd(s, i) ==
    IF ~(WordB(s, i) /\ s[i] \in DigitChars) THEN 0
    ELSE LET ch == DigitChain(s, i, <<>>)
             ks == {k \in 13..Len(ch) : ~IsWordAt(s, ch[k] + 1)}
         IN IF ks = {} THEN 0 ELSE ch[SetMax(ks)]

Redacted(s, i) == REDACTED

scrub_sensitive(text) ==
    ReSub(ReSub(ReSub(ReSub(ReSub(ReSub(text, EmailEnd, Redacted),
                                  UrlEnd, Redacted),
                            KeyEnd, Redacted),
                      HexEnd, Redacted),
                PhoneEnd, Redacted),
          CCardEnd, Redacted)

\* re.search(r"\b(w1|w2|...)\b", text): some listed word stands between two \b
HasWord(text, words) ==
    \E w \in words : \E i \in 1..(Len(text) - Len(w) + 1) :
        StartsAt(text, i, w) /\ WordB(text, i) /\ WordB(text, i + Len(w))

likely_legal(text) ==
    HasWord(Lower(text), {S("policy"), S("compliance"), S("gdpr"), S("hipaa"), S("terms"),
                          S("contract"), S("license"), S("liability")})

likely_medical(text) ==
    HasWord(Lower(text), {S("clinical"), S("diagnos"), S("treatment"), S("adverse"),
                          S("contraindication"), S("guideline"), S("prescrib")})

has_meaningful_notes(include_notes, notes_text) == include_notes /\ Strip(notes_text) # <<>>

\* RE_SENTENCES.split(s): split at each whitespace run that follows a terminator
split_sentences(s) ==
    ReSplitFrom(s, {i \in 2..Len(s) : IsWs(s[i]) /\ s[i - 1] \in SentenceEnders},
                [i \in 1..Len(s) |-> RunEnd(s, i, WsChars)], 1)

AnyIn(s, words) == \E w \in words : Contains(s, w)

detect_archetype(guidance) ==
    Let(Lower(guidance), LAMBDA g :
        IF AnyIn(g, {S("investor"), S("pitch")}) THEN "investor"
        ELSE IF AnyIn(g, {S("sop"), S("runbook"), S("standard operating")}) THEN "sop"
        ELSE IF AnyIn(g, {S("sales")}) THEN "sales"
        ELSE IF AnyIn(g, {S("research"), S("conference"), S("talk"), S("paper")})
             THEN "research"
        ELSE IF AnyIn(g, {S("lesson"), S("quiz"), S("lecture"), S("teaching")})
             THEN "lesson"
        ELSE "none")

archetype_sections(kind) ==
    CASE kind = "investor" ->
            <<S("Problem"), S("Solution"), S("Market"), S("Product"), S("Moat"),
              S("Go-To-Market"), S("Traction"), S("Business Model"), S("Competition"),
              S("Team"), S("Financials"), S("Ask"), S("Roadmap")>>
      [] kind = "sop" ->
            <<S("Purpose"), S("Scope"), S("Prerequisites"), S("Procedure"),
              S("Validation/Checks"), S("Rollback/Recovery"), S("Contact/On-call")>>
      [] kind = "sales" ->
            <<S("Overview"), S("Value Proposition"), S("ROI/Impact"), S("Case Studies"),
              S("Pricing"), S("Call to Action")>>
      [] kind = "research" ->
            <<S("Background"), S("Methods"), S("Results"), S("Limitations"),
              S("Future Work"), S("References/Acknowledgements")>>
      [] kind = "lesson" ->
            <<S("Objectives"), S("Key Concepts"), S("Examples"), S("Practice Questions"),
              S("Summary")>>
      [] OTHER -> <<>>

\* the hints table of _keyword_bucket: <<section key, keywords>>
HINTS ==
    <<
       <<S("problem"), {S("problem"), S("pain"), S("gap")}>>,
       <<S("solution"), {S("solution"), S("approach"), S("proposal")}>>,
       <<S("market"), {S("market"), S("tam"), S("sam"), S("som")}>>,
       <<S("product"), {S("product"), S("feature"), S("prototype"), S("architecture")}>>,
       <<S("moat"), {S("moat"), S("defensib"), S("advantage"), S("ip"), S("patent")}>>,
       <<S("go-to-market"), {S("gtm"), S("marketing"), S("sales"), S("channel")}>>,
       <<S("traction"), {S("traction"), S("revenue"), S("users"), S("growth")}>>,
       <<S("business model"), {S("pricing"), S("business model"), S("subscription"), S("margin")}>>,
       <<S("competition"), {S("competitor"), S("competition"), S("alternative")}>>,
       <<S("team"), {S("team"), S("hiring"), S("founder")}>>,
       <<S("financials"), {S("financial"), S("projection"), S("cost"), S("profit"), S("loss"), S("burn")}>>,
       <<S("ask"), {S("ask"), S("raise"), S("fund"), S("investment")}>>,
       <<S("roadmap"), {S("roadmap"), S("timeline"), S("milestone")}>>,
       <<S("purpose"), {S("purpose"), S("objective")}>>,
       <<S("scope"), {S("scope"), S("coverage")}>>,
       <<S("prerequisites"), {S("prerequisite"), S("requirement"), S("dependency")}>>,
       <<S("procedure"), {S("step"), S("procedure"), S("instruction")}>>,
       <<S("validation/checks"), {S("validate"), S("check"), S("verify")}>>,
       <<S("rollback/recovery"), {S("rollback"), S("recovery"), S("restore")}>>,
       <<S("contact/on-call"), {S("contact"), S("on-call"), S("escalation")}>>,
       <<S("value proposition"), {S("value"), S("benefit"), S("advantage"), S("roi")}>>,
       <<S("roi/impact"), {S("roi"), S("impact"), S("benefit")}>>,
       <<S("case studies"), {S("case"), S("study"), S("example")}>>,
       <<S("call to action"), {S("cta"), S("contact"), S("next step"), S("trial")}>>,
       <<S("background"), {S("background"), S("intro"), S("motivation")}>>,
       <<S("methods"), {S("method"), S("algorithm"), S("procedure")}>>,
       <<S("results"), {S("result"), S("finding"), S("outcome")}>>,
       <<S("limitations"), {S("limit"), S("constraint"), S("threat")}>>,
       <<S("future work"), {S("future"), S("next"), S("expand")}>>,
       <<S("references/acknowledgements"), {S("reference"), S("cite"), S("acknowledgement")}>>,
       <<S("objectives"), {S("objective"), S("goal"), S("outcome")}>>,
       <<S("key concepts"), {S("concept"), S("definition"), S("theory")}>>,
       <<S("examples"), {S("example"), S("illustration")}>>,
       <<S("practice questions"), {S("question"), S("quiz"), S("mcq")}>>,
       <<S("summary"), {S("summary"), S("conclusion"), S("recap")}>>
    >>

\* hints.get(key, [])
HintsOf(key) ==
    Let({i \in 1..Len(HINTS) : HINTS[i][1] = key}, LAMBDA hit :
        IF hit = {} THEN {} ELSE HINTS[CHOOSE i \in hit : TRUE][2])

\* hash(s) of a str: fixed within one interpreter process, which draws it from the
\* process's hash seed.
PyHash(seed, s) == seed + Len(s)

\* A bucketing that looks at no hint.
keyword_bucket_by_hash(sentence, sections, seed) ==
    PyHash(seed, Lower(sentence)) % MaxOf(1, Len(sections))

\* The section index, counted from 0.
keyword_bucket(sentence, sections, seed) ==
    Let(Lower(sentence), LAMBDA s :
    Let({i \in 1..Len(sections) : AnyIn(s, HintsOf(Lower(sections[i])))}, LAMBDA hit :
        IF hit # {} THEN SetMin(hit) - 1
        ELSE PyHash(seed, s) % MaxOf(1, Len(sections))))

layout_bias_from_guidance(guidance) ==
    Let(Lower(guidance), LAMBDA g :
        IF AnyIn(g, {S("visual"), S("image"), S("design-heavy"), S("poster")})
        THEN L_PictureWithCaption
        ELSE IF AnyIn(g, {S("executive"), S("summary"), S("tl;dr")})
             THEN L_ContentWithCaption
        ELSE IF AnyIn(g, {S("technical"), S("deep dive"), S("details")}) THEN L_TwoContent
        ELSE L_auto)

bullet_target_from_guidance(guidance) ==
    Let(Lower(guidance), LAMBDA g :
        IF AnyIn(g, {S("executive"), S("brief"), S("summary")}) THEN 3
        ELSE IF AnyIn(g, {S("technical"), S("detailed"), S("thorough")}) THEN 6
        ELSE 5)

\* The loop of _split_by_char_budget: the parts' bullet lists.
RECURSIVE BudgetParts(_, _, _, _)
BudgetParts(bullets, buf, running, out) ==
    IF bullets = <<>> THEN (IF buf # <<>> THEN Append(out, buf) ELSE out)
    ELSE Let(Strip(Head(bullets)), LAMBDA b :
             IF b = <<>> THEN BudgetParts(Tail(bullets), buf, running, out)
             ELSE IF running + Len(b) > MAX_CHARS_PER_SLIDE /\ buf # <<>>
                  THEN BudgetParts(Tail(bullets), <<b>>, Len(b), Append(out, buf))
                  ELSE BudgetParts(Tail(bullets), Append(buf, b), running + Len(b), out))

\* A split that closes a part only once the buffer itself is over the budget.
RECURSIVE BudgetPartsLate(_, _, _, _)
BudgetPartsLate(bullets, buf, running, out) ==
    IF bullets = <<>> THEN (IF buf # <<>> THEN Append(out, buf) ELSE out)
    ELSE Let(Strip(Head(bullets)), LAMBDA b :
             IF b = <<>> THEN BudgetPartsLate(Tail(bullets), buf, running, out)
             ELSE IF running > MAX_CHARS_PER_SLIDE /\ buf # <<>>
                  THEN BudgetPartsLate(Tail(bullets), <<b>>, Len(b), Append(out, buf))
                  ELSE BudgetPartsLate(Tail(bullets), Append(buf, b), running + Len(b), out))

split_by_char_budget_late(title, bullets) ==
    Let(BudgetPartsLate(bullets, <<>>, 0, <<>>), LAMBDA parts :
        [i \in 1..Len(parts) |->
           [title |-> IF i = 1 THEN title ELSE title \o S(" (cont.)"),
            bullets |-> parts[i]]])

split_by_char_budget(title, bullets) ==
    Let(BudgetParts(bullets, <<>>, 0, <<>>), LAMBDA parts :
        [i \in 1..Len(parts) |->
           [title |-> IF i = 1 THEN title ELSE title \o S(" (cont.)"),
            bullets |-> parts[i]]])

\* sep.join(items)
Join(items, sep) ==
    Flatten([k \in 1..MaxOf(0, 2 * Len(items) - 1) |->
                IF k % 2 = 1 THEN items[(k + 1) \div 2] ELSE sep])

generate_notes_from_bullets(bullets) ==
    IF bullets = <<>> THEN <<>>
    ELSE Let(Take(bullets, MinOf(4, Len(bullets))), LAMBDA core :
         Let(Join(MapSeq(core, parser_collapse_ws), S("; ")), LAMBDA sent :
             IF Len(core) >= 3
             THEN truncate(S("Key points: ") \o sent \o S("."), 380)
             ELSE truncate(sent, 380)))

\* ---- MarkdownIt().parse: the token stream of a document ----
\* A document is a sequence of blocks; md_parse gives the tokens the commonmark preset
\* emits for it (no table tokens: the preset has no table rule), RawText the text that
\* parses to it.

Tok(type, content, info) == [type |-> type, content |-> content, info |-> info]

Heading(t) == [b |-> "heading", t |-> t, info |-> <<>>, items |-> <<>>]
Para(t) == [b |-> "para", t |-> t, info |-> <<>>, items |-> <<>>]
Quote(t) == [b |-> "quote", t |-> t, info |-> <<>>, items |-> <<>>]
Fence(info, code) == [b |-> "fence", t |-> code, info |-> info, items |-> <<>>]
\* an HTML block: one html_block token, which the token loop passes over
Html(t) == [b |-> "html", t |-> t, info |-> <<>>, items |-> <<>>]
\* items: a sequence of [t |-> text, sub |-> texts of the nested items]
BulletList(items) == [b |-> "list", t |-> <<>>, info |-> <<>>, items |-> items]
Item(t, sub) == [t |-> t, sub |-> sub]

ParaTokens(t) ==
    <<Tok("paragraph_open", <<>>, <<>>), Tok("inline", t, <<>>), Tok("paragraph_close", <<>>, <<>>)>>

LeafItemTokens(t) ==
    <<Tok("list_item_open", <<>>, <<>>)>> \o ParaTokens(t) \o <<Tok("list_item_close", <<>>, <<>>)>>

ItemTokens(it) ==
    <<Tok("list_item_open", <<>>, <<>>)>> \o ParaTokens(it.t)
    \o (IF it.sub = <<>> THEN <<>>
        ELSE <<Tok("bullet_list_open", <<>>, <<>>)>>
             \o Flatten([i \in 1..Len(it.sub) |-> LeafItemTokens(it.sub[i])])
             \o <<Tok("bullet_list_close", <<>>, <<>>)>>)
    \o <<Tok("list_item_close", <<>>, <<>>)>>

BlockTokens(blk) ==
    CASE blk.b = "heading" ->
            <<Tok("heading_open", <<>>, <<>>), Tok("inline", blk.t, <<>>),
              Tok("heading_close", <<>>, <<>>)>>
      [] blk.b = "para" -> ParaTokens(blk.t)
      [] blk.b = "quote" ->
            <<Tok("blockquote_open", <<>>, <<>>)>> \o ParaTokens(blk.t)
            \o <<Tok("blockquote_close", <<>>, <<>>)>>
      [] blk.b = "fence" -> <<Tok("fence", blk.t, blk.info)>>
      [] blk.b = "html" -> <<Tok("html_block", blk.t, <<>>)>>
      [] OTHER ->
            <<Tok("bullet_list_open", <<>>, <<>>)>>
            \o Flatten([i \in 1..Len(blk.items) |-> ItemTokens(blk.items[i])])
            \o <<Tok("bullet_list_close", <<>>, <<>>)>>

md_parse(doc) == Flatten([i \in 1..Len(doc) |-> BlockTokens(doc[i])])

ItemText(it) ==
    S("- ") \o it.t
    \o Flatten([i \in 1..Len(it.sub) |-> S("\n  - ") \o it.sub[i]])

\* the fence marker, three grave accents
FENCE == Rep("U+0060", 3)

BlockText(blk) ==
    CASE blk.b = "heading" -> S("# ") \o blk.t
      [] blk.b = "para" -> blk.t
      [] blk.b = "quote" -> S("> ") \o blk.t
      [] blk.b = "fence" -> FENCE \o blk.info \o S("\n") \o blk.t \o FENCE
      [] blk.b = "html" -> blk.t
      [] OTHER -> Join([i \in 1..Len(blk.items) |-> ItemText(blk.items[i])], S("\n"))

RawText(doc) == Join([i \in 1..Len(doc) |-> BlockText(doc[i])], S("\n\n"))

\* ---- heuristic_outline ----
\* A parser slide is the dict the parser builds; notes is None when the key is absent.
PSlide(title, bullets, layout, notes) ==
    [title |-> title, bullets |-> bullets, layout |-> layout, notes |-> notes]

NotesIf(include_notes, bullets) ==
    IF include_notes THEN Some(generate_notes_from_bullets(bullets)) ELSE None

\* The cleaned bullets of flush_slide.
flush_bullets(current_bullets) ==
    dedup_preserve_order(
        SelectSeq(MapSeq(SelectSeq(current_bullets, LAMBDA b : b # <<>> /\ Strip(b) # <<>>),
                         LAMBDA b : scrub_sensitive(truncate(strip_markup(b),
                                                             MAX_CHARS_PER_BULLET))),
                  LAMBDA b : Strip(b) # <<>>))

\* The slide that flush_slide builds from part idx (from 1) of the split; ttl is
\* current_title or "Overview".
flush_part(part, idx, ttl, bias, include_notes) ==
    Let(Take(part.bullets, PARSER_MAX_BULLETS_PER_SLIDE), LAMBDA bl :
    Let(IF Len(part.bullets) > PARSER_MAX_BULLETS_PER_SLIDE THEN L_TwoContent
        ELSE IF bias \in ALLOWED_LAYOUTS THEN bias ELSE L_auto,
        LAMBDA chosen :
            PSlide(IF idx = 1 THEN part.title ELSE ttl \o S(" (cont.)"),
                   bl,
                   IF chosen \in ALLOWED_LAYOUTS THEN chosen ELSE L_auto,
                   NotesIf(include_notes, bl))))

\* flush_slide: the slides list after the flush. current_title is "" where the code has None.
flush_slide(slides, current_title, current_bullets, bias, include_notes) ==
    IF current_title = <<>> /\ current_bullets = <<>> THEN slides
    ELSE Let(IF current_title = <<>> THEN S("Overview") ELSE current_title, LAMBDA ttl :
             slides \o MapIdx(split_by_char_budget(ttl, flush_bullets(current_bullets)),
                              LAMBDA part, idx :
                                  flush_part(part, idx, ttl, bias, include_notes)))

\* The least j >= from with tokens[j].type in types, Len(tokens) + 1 if there is none.
ScanTo(tokens, from, types) ==
    LET hit == {j \in from..Len(tokens) : tokens[j].type \in types}
    IN IF hit = {} THEN Len(tokens) + 1 ELSE SetMin(hit)

\* " " + content of every inline token at positions a..b
InlineBuf(tokens, a, b) ==
    Flatten([k \in 1..MaxOf(0, b - a + 1) |->
                IF tokens[a + k - 1].type = "inline"
                THEN S(" ") \o tokens[a + k - 1].content ELSE <<>>])

\* current_bullets.append(prefix + text) when text is not empty
AppendIf(bullets, prefix, text) ==
    IF text # <<>> THEN Append(bullets, prefix \o text) ELSE bullets

\* The bullet that stands for a fenced code block.
fence_bullet(tk) ==
    S("Code: ") \o Let(Strip(tk.info), LAMBDA lang : IF lang = <<>> THEN S("code") ELSE lang)
    \o S(" block (~") \o IntToStr(Len(SplitLines(tk.content)))
    \o S(" lines) ") \o <<EnDash>> \o S(" summary unavailable")

\* One iteration of the token loop; st.i is the position (from 1).
Pass1Step(st, tokens, bias, include_notes) ==
    LET i == st.i
        tk == tokens[i]
        nextInline == i + 1 <= Len(tokens) /\ tokens[i + 1].type = "inline"
    IN CASE tk.type = "heading_open" ->
              [st EXCEPT !.slides = flush_slide(st.slides, st.current_title,
                                                st.current_bullets, bias, include_notes),
                         !.current_bullets = <<>>,
                         !.current_title =
                             IF nextInline
                             THEN truncate(strip_markup(tokens[i + 1].content), 80)
                             ELSE <<>>,
                         !.i = IF nextInline THEN i + 2 ELSE i + 1]
         [] tk.type \in {"bullet_list_open", "ordered_list_open"} ->
              [st EXCEPT !.list_level = st.list_level + 1, !.i = i + 1]
         [] tk.type \in {"bullet_list_close", "ordered_list_close"} ->
              [st EXCEPT !.list_level = MaxOf(0, st.list_level - 1), !.i = i + 1]
         [] tk.type = "list_item_open" ->
              Let(ScanTo(tokens, i + 1, {"list_item_close", "list_item_open"}), LAMBDA j :
                  [st EXCEPT !.current_bullets =
                                 AppendIf(@, IF st.list_level >= 2 THEN SUB_BULLET_PREFIX
                                             ELSE <<>>,
                                          parser_collapse_ws(
                                              strip_markup(InlineBuf(tokens, i + 1, j - 1)))),
                             !.i = j])
         [] tk.type = "blockquote_open" ->
              Let(ScanTo(tokens, i + 1, {"blockquote_close"}), LAMBDA j :
                  [st EXCEPT !.current_bullets =
                                 AppendIf(@, S("Quote: "),
                                          parser_collapse_ws(
                                              strip_markup(InlineBuf(tokens, i + 1, j - 1)))),
                             !.i = j])
         [] tk.type = "paragraph_open" ->
              [st EXCEPT !.current_bullets =
                             AppendIf(@, <<>>,
                                      IF nextInline
                                      THEN parser_collapse_ws(
                                               strip_markup(tokens[i + 1].content))
                                      ELSE <<>>),
                         !.i = i + 1]
         [] tk.type = "fence" ->
              [st EXCEPT !.current_bullets = Append(@, fence_bullet(tk)), !.i = i + 1]
         [] OTHER -> [st EXCEPT !.i = i + 1]

\* Up to n iterations of the token loop, by halving n.
RECURSIVE Pass1Run(_, _, _, _, _)
Pass1Run(st, tokens, bias, include_notes, n) ==
    IF st.i > Len(tokens) \/ n = 0 THEN st
    ELSE IF n = 1 THEN Pass1Step(st, tokens, bias, include_notes)
    ELSE Pass1Run(Pass1Run(st, tokens, bias, include_notes, n \div 2),
                  tokens, bias, include_notes, n - n \div 2)

\* Pass 1 with the final flush: the slides of the Markdown-aware extraction.
Pass1(tokens, bias, include_notes) ==
    Let(Pass1Run([i |-> 1, slides |-> <<>>, current_title |-> <<>>,
                  current_bullets |-> <<>>, list_level |-> 0],
                 tokens, bias, include_notes, Len(tokens)),
        LAMBDA st : flush_slide(st.slides, st.current_title, st.current_bullets,
                                bias, include_notes))

\* The sentences of the fallback: RE_SENTENCES.split, without empties and bare enders.
fallback_sentences(raw) ==
    SelectSeq(split_sentences(parser_collapse_ws(raw)),
              LAMBDA s : s # <<>> /\ ~(\A i \in 1..Len(s) : s[i] \in {".", "!", "?"}))

\* The slides of one archetype section; group holds the section's sentences.
section_slides(sec, group, bias, include_notes) ==
    IF group = <<>> THEN <<>>
    ELSE MapSeq(split_by_char_budget(sec, dedup_preserve_order(group)), LAMBDA part :
            LET chosen == IF Len(part.bullets) > PARSER_MAX_BULLETS_PER_SLIDE
                          THEN L_TwoContent ELSE bias
            IN PSlide(part.title,
                      Take(part.bullets, PARSER_MAX_BULLETS_PER_SLIDE),
                      IF chosen \in ALLOWED_LAYOUTS THEN chosen ELSE L_auto,
                      NotesIf(include_notes, part.bullets)))

\* Archetype bucketing: one group of slides per non-empty section.
archetype_slides(sentences, sections, seed, bias, include_notes) ==
    Flatten(MapIdx(sections, LAMBDA sec, k :
        section_slides(sec,
                       MapSeq(SelectSeq(sentences,
                                        LAMBDA s : keyword_bucket(s, sections, seed) = k - 1),
                              LAMBDA s : truncate(s, MAX_CHARS_PER_BULLET)),
                       bias, include_notes)))

\* approx_slides of the generic chunking
approx_slides(raw) ==
    MaxOf(MIN_SLIDES,
          MinOf(MAX_SLIDES,
                MaxOf(MIN_SLIDES,
                      MinOf(25, word_count(raw)
                                \div MaxOf(1, (WORDS_PER_SLIDE_MIN + WORDS_PER_SLIDE_MAX) \div 2)))))

\* The slides of the idx-th chunk (from 1); bul holds its bullets.
group_slides(idx, bul, bias, include_notes) ==
    IF bul = <<>> THEN <<>>
    ELSE MapSeq(split_by_char_budget(S("Section ") \o IntToStr(idx), bul), LAMBDA q :
            PSlide(q.title,
                   Take(dedup_preserve_order(q.bullets), PARSER_MAX_BULLETS_PER_SLIDE),
                   IF bias \in ALLOWED_LAYOUTS THEN bias ELSE L_auto,
                   NotesIf(include_notes, q.bullets)))

\* The chunking of the sentences into groups of group_size.
generic_groups(raw, sentences) ==
    chunks(sentences, MaxOf(1, Len(sentences) \div MaxOf(1, approx_slides(raw))))

\* Generic chunking into "Section N" slides.
generic_slides(raw, sentences_in, bias, include_notes) ==
    Flatten(MapIdx(generic_groups(raw, IF sentences_in # <<>> THEN sentences_in
                                       ELSE IF Strip(raw) # <<>> THEN <<raw>> ELSE <<>>),
                   LAMBDA group, idx :
        group_slides(idx,
                     MapSeq(SelectSeq(group, LAMBDA sent : sent # <<>>),
                            LAMBDA sent : truncate(strip_markup(sent), MAX_CHARS_PER_BULLET)),
                     bias, include_notes)))

\* The fallback block, entered when pass 1 gave no slide with a real title.
fallback_slides(slides_in, raw, archetype, sentences, seed, bias, include_notes) ==
    Let(IF archetype # "none"
        THEN archetype_slides(sentences, archetype_sections(archetype), seed,
                              bias, include_notes)
        ELSE slides_in,
        LAMBDA after_arch :
            IF after_arch # <<>> THEN after_arch
            ELSE generic_slides(raw, sentences, bias, include_notes))

\* The slides after the fallback block of heuristic_outline.
with_fallback(slides_in, raw, guidance, seed, bias, include_notes) ==
    IF /\ slides_in # <<>>
       /\ \E i \in 1..Len(slides_in) :
             /\ slides_in[i].title # <<>>
             /\ slides_in[i].title \notin {S("Overview"), S("Slide")}
    THEN slides_in
    ELSE fallback_slides(slides_in, raw, detect_archetype(guidance),
                         fallback_sentences(raw), seed, bias, include_notes)

DISCLAIMER == S("Informational only; not legal/medical advice.")

\* The text with the disclaimer appended to the notes.
notes_with_disclaimer(old) == truncate(Strip(Strip(old \o S(" ")) \o DISCLAIMER), 400)

\* The legal/medical disclaimer step.
with_disclaimer(slides, raw, include_notes) ==
    IF slides = <<>> \/ ~Let(Lower(raw), LAMBDA raw_lower :
                               likely_legal(raw_lower) \/ likely_medical(raw_lower))
    THEN slides
    ELSE IF include_notes
    THEN [slides EXCEPT ![1].notes =
             Some(notes_with_disclaimer(IF @ = None THEN <<>> ELSE @[1]))]
    ELSE IF \E i \in 1..Len(slides[Len(slides)].bullets) :
               slides[Len(slides)].bullets[i] = DISCLAIMER
         THEN slides
         ELSE [slides EXCEPT ![Len(slides)].bullets = Append(@, DISCLAIMER)]

\* The layout of the cleanup pass, for a slide with n cleaned bullets.
cleanup_layout(s, include_notes, n) ==
    LET l0 == IF s.layout = <<>> \/ s.layout \notin ALLOWED_LAYOUTS THEN L_auto ELSE s.layout
        l1 == IF /\ l0 = L_auto
                 /\ has_meaningful_notes(include_notes,
                                         IF s.notes = None THEN <<>> ELSE s.notes[1])
              THEN L_ContentWithCaption ELSE l0
    IN IF n > PARSER_MAX_BULLETS_PER_SLIDE /\ l1 # L_TwoContent THEN L_TwoContent ELSE l1

\* The notes of the cleanup pass; outb holds the slide's final bullets.
cleanup_notes(s, outb) ==
    truncate(IF s.notes # None /\ s.notes[1] # <<>> THEN s.notes[1]
             ELSE generate_notes_from_bullets(outb),
             400)

\* The final cleanup pass over one slide.
cleanup_slide(s, include_notes) ==
    Let(dedup_preserve_order(
            MapSeq(SelectSeq(s.bullets, LAMBDA b : b # <<>> /\ Strip(b) # <<>>),
                   LAMBDA b : scrub_sensitive(truncate(b, MAX_CHARS_PER_BULLET)))),
        LAMBDA bullets :
    Let(Take(bullets, PARSER_MAX_BULLETS_PER_SLIDE), LAMBDA outb :
        PSlide(truncate(IF s.title = <<>> THEN S("Slide") ELSE s.title, 80),
               outb,
               cleanup_layout(s, include_notes, Len(bullets)),
               IF include_notes THEN Some(cleanup_notes(s, outb)) ELSE None)))

cleanup(slides, include_notes) ==
    SelectSeq(MapSeq(slides, LAMBDA s : cleanup_slide(s, include_notes)),
              LAMBDA o : o.title # <<>> \/ o.bullets # <<>>)

\* The first loop of the parser's own _ensure_min_slides.
RECURSIVE ParserSplitDense(_, _, _)
ParserSplitDense(slides_in, out, include_notes) ==
    IF slides_in = <<>> THEN out
    ELSE LET s == Head(slides_in)
         IN IF Len(out) + 1 < MIN_SLIDES /\ Len(s.bullets) > 3
            THEN LET extra == Drop(s.bullets, 3)
                     cb == Take(extra, 3)
                     cont == PSlide(s.title \o S(" (cont.)"), cb, s.layout,
                                    NotesIf(include_notes, cb))
                 IN ParserSplitDense(Tail(slides_in),
                                     out \o <<[s EXCEPT !.bullets = Take(s.bullets, 3)], cont>>,
                                     include_notes)
            ELSE ParserSplitDense(Tail(slides_in), Append(out, s), include_notes)

RECURSIVE ParserPad(_, _)
ParserPad(out, include_notes) ==
    IF Len(out) >= MIN_SLIDES THEN out
    ELSE ParserPad(Append(out, PSlide(S("Slide ") \o IntToStr(Len(out) + 1), <<>>, L_Blank,
                                      IF include_notes THEN Some(<<>>) ELSE None)),
                   include_notes)

\* A minimum-slides step that pads nothing.
parser_ensure_min_slides_unpadded(slides_in, include_notes) == slides_in

\* heuristic_outline's inner _ensure_min_slides
parser_ensure_min_slides(slides_in, include_notes) ==
    IF Len(slides_in) >= MIN_SLIDES THEN slides_in
    ELSE ParserPad(ParserSplitDense(slides_in, <<>>, include_notes), include_notes)

deck_title(cleaned, guidance) ==
    LET real == {i \in 1..Len(cleaned) :
                    cleaned[i].title \notin {S("Overview"), S("Slide"), S("Section 1")}}
        first == IF real = {} THEN <<>> ELSE cleaned[SetMin(real)].title
    IN IF first # <<>> THEN first
       ELSE IF guidance # <<>>
            THEN S("Generated Presentation ") \o <<EmDash>> \o S(" ") \o truncate(guidance, 60)
            ELSE S("Generated Presentation")

\* The returned dict, from the cleaned slides.
outline_dict_of(cleaned, guidance) ==
    [title |-> deck_title(cleaned, guidance),
     slides |-> cleaned,
     estimated_slide_count |-> Len(cleaned)]

\* The steps of heuristic_outline after pass 1.
after_pass1(pass1, raw, guidance, include_notes, seed, bias) ==
    outline_dict_of(
        Take(parser_ensure_min_slides(
                 cleanup(with_disclaimer(with_fallback(pass1, raw, guidance, seed, bias,
                                                       include_notes),
                                         raw, include_notes),
                         include_notes),
                 include_notes),
             MAX_SLIDES),
        guidance)

\* heuristic_outline(text, guidance, include_notes) on text = RawText(doc), in a process
\* whose string hash is seeded with seed: the returned dict.
heuristic_outline(doc, guidance, include_notes, seed) ==
    Let(layout_bias_from_guidance(guidance), LAMBDA bias :
        after_pass1(Pass1(md_parse(doc), bias, include_notes),
                    RawText(doc), guidance, include_notes, seed, bias))

\* --------------------------------------------------- template_utils.py

MAX_ZIP_ENTRIES == 2000
MAX_ZIP_MEMBER_MB == 50
MAX_ZIP_TOTAL_MB == 200
\* MAX_COMPRESSION_RATIO, 200.0
MAX_COMPRESSION_RATIO == 200

\* An archive as ZipFile reads it from the central directory: whether it opens at all,
\* its entries in order, and a number of further one-byte files (fillers).
ZipEntry(name, file_size, compress_size) ==
    [name |-> name, file_size |-> file_size, compress_size |-> compress_size]
Zip(wellformed, entries, fillers) ==
    [wellformed |-> wellformed, entries |-> entries, fillers |-> fillers]
\* The uploaded bytes: their length, what they hold as a zip archive, and the presentation
\* that python-pptx loads from them (None when it cannot open them).
Upload(len, zip, prs) == [len |-> len, zip |-> zip, loadable |-> prs # None, prs |-> prs]

\* ZipInfo.is_dir()
is_dir(info) == EndsWith(info.name, S("/"))

\* float(file_size) / float(compress_size) > max_ratio, for compress_size > 0
ratio_above(info, max_ratio) ==
    \/ info.file_size \div info.compress_size > max_ratio
    \/ /\ info.file_size \div info.compress_size = max_ratio
       /\ info.file_size % info.compress_size > 0

\* total_uncompressed over the first n entries
RECURSIVE total_uncompressed(_, _)
total_uncompressed(entries, n) ==
    IF n = 0 THEN 0
    ELSE total_uncompressed(entries, n - 1)
         + (IF is_dir(entries[n]) THEN 0 ELSE entries[n].file_size)

\* One pass of the loop over z.infolist(): the entry does not end the check with False.
entry_within(info, per_limit, max_ratio) ==
    \/ is_dir(info)
    \/ /\ info.file_size <= per_limit
       /\ info.compress_size > 0 => ~ratio_above(info, max_ratio)

is_safe_pptx(template_bytes, max_entries, max_member_mb, max_total_mb, max_ratio) ==
    /\ template_bytes.zip.wellformed
    /\ \E i \in 1..Len(template_bytes.zip.entries) :
          template_bytes.zip.entries[i].name = S("[Content_Types].xml")
    /\ \E i \in 1..Len(template_bytes.zip.entries) :
          EndsWith(template_bytes.zip.entries[i].name, S("ppt/presentation.xml"))
    /\ Len(template_bytes.zip.entries) + template_bytes.zip.fillers <= max_entries
    /\ \A i \in 1..Len(template_bytes.zip.entries) :
          entry_within(template_bytes.zip.entries[i], max_member_mb * 1024 * 1024, max_ratio)
    /\ total_uncompressed(template_bytes.zip.entries, Len(template_bytes.zip.entries))
          + template_bytes.zip.fillers <= max_total_mb * 1024 * 1024

\* -------------------------------------- template_utils.py: layout selection

\* A placeholder of a layout or slide: its placeholder_format.type, and whether the shape
\* has a text_frame (a p:sp element has one, a p:pic or p:graphicFrame element has none).
Ph(ptype, text_frame) == [ptype |-> ptype, text_frame |-> text_frame]

\* A slide layout: its name and its placeholders in idx order.
Layout(name, placeholders) == [name |-> name, placeholders |-> placeholders]

\* PP_PLACEHOLDER as the installed python-pptx defines it: the enumeration has the member
\* OBJECT and, depending on the library, may or may not have a member CONTENT.
\* content: None when PP_PLACEHOLDER.CONTENT raises AttributeError, else the type it names.
PpEnum(content) == [content |-> content]
PlaceholderEnums == {PpEnum(None), PpEnum(Some("OBJECT"))}

\* _layout_capabilities: <<text_capable, picture_capable>>;
\* getattr(PP_PLACEHOLDER, "CONTENT", -1) names no placeholder type when the member is missing
layout_capabilities(layout, PP_PLACEHOLDER) ==
    <<Cardinality({i \in 1..Len(layout.placeholders) : layout.placeholders[i].text_frame}),
      Cardinality({i \in 1..Len(layout.placeholders) :
                      \/ layout.placeholders[i].ptype = "PICTURE"
                      \/ Some(layout.placeholders[i].ptype) = PP_PLACEHOLDER.content})>>

name_match_score(candidate, target) ==
    Let(Lower(Strip(candidate)), LAMBDA c :
    Let(Lower(Strip(target)), LAMBDA t :
        IF c = <<>> \/ t = <<>> THEN 0
        ELSE IF c = t THEN 3
        ELSE IF Contains(c, t) THEN 2
        ELSE 0))

\* A capability test that accepts every layout.
capability_ok_by_name(target, text_count, pic_count) == TRUE

capability_ok(target, text_count, pic_count) ==
    Let(Lower(target), LAMBDA t :
        IF Contains(t, S("two content")) THEN text_count >= 2
        ELSE IF Contains(t, S("picture")) THEN pic_count >= 1
        ELSE IF Contains(t, S("content")) \/ Contains(t, S("caption")) THEN text_count >= 1
        ELSE TRUE)

\* list.index(x): the first position of x
IndexOf(list, x) == CHOOSE i \in 1..Len(list) : list[i] = x /\ \A j \in 1..(i - 1) : list[j] # x

\* find_preferred_layout, first loop: the layouts whose lowered name is one of the lowered
\* preferred names and that can do what the first preferred name of that spelling asks
exact_hits(layouts, preferred_names, PP_PLACEHOLDER) ==
    Let(MapSeq(preferred_names, Lower), LAMBDA lowered :
        {i \in 1..Len(layouts) :
            /\ layouts[i].name # <<>>
            /\ \E k \in 1..Len(lowered) : lowered[k] = Lower(layouts[i].name)
            /\ Let(layout_capabilities(layouts[i], PP_PLACEHOLDER), LAMBDA caps :
                   capability_ok(preferred_names[IndexOf(lowered, Lower(layouts[i].name))],
                                 caps[1], caps[2]))})

\* find_preferred_layout, second loop: the score of one layout after the preferred names
\* from position k on, given the score so far
RECURSIVE layout_score(_, _, _, _, _)
layout_score(lname, caps, preferred_names, k, score) ==
    IF k > Len(preferred_names) THEN score
    ELSE Let(MaxOf(score, name_match_score(lname, preferred_names[k])), LAMBDA sc :
             layout_score(lname, caps, preferred_names, k + 1,
                          IF sc > 0 /\ ~capability_ok(preferred_names[k], caps[1], caps[2])
                          THEN 0 ELSE sc))

\* find_preferred_layout, second loop: the first layout with the best score, if positive
best_scored(layouts, preferred_names, PP_PLACEHOLDER) ==
    Let([i \in 1..Len(layouts) |->
            layout_score(layouts[i].name, layout_capabilities(layouts[i], PP_PLACEHOLDER),
                         preferred_names, 1, 0)],
        LAMBDA scores :
            IF \A i \in 1..Len(layouts) : scores[i] = 0 THEN None
            ELSE Some(CHOOSE i \in 1..Len(layouts) :
                         /\ \A j \in 1..Len(layouts) : scores[j] <= scores[i]
                         /\ \A j \in 1..(i - 1) : scores[j] < scores[i]))

\* find_preferred_layout(prs, preferred_names): the position in prs.slide_layouts of the
\* layout returned, None when there is none
find_preferred_layout(layouts, preferred_names, PP_PLACEHOLDER) ==
    IF preferred_names = <<>> THEN None
    ELSE Let(exact_hits(layouts, preferred_names, PP_PLACEHOLDER), LAMBDA hits :
             IF hits # {} THEN Some(CHOOSE i \in hits : \A j \in hits : i <= j)
             ELSE best_scored(layouts, preferred_names, PP_PLACEHOLDER))

\* ---------------------------------------------------------- pptx_builder.py

BUILDER_MAX_BULLETS_PER_SLIDE == 12

\* _strip_control_chars
strip_control_chars(s) == SelectSeq(s, LAMBDA ch : ch \in {"\t", "\n"} \/ ch \notin CtrlChars)

\* _bullet_level_and_text: <<level, text>>
bullet_level_and_text(text) ==
    Let(RStrip(strip_control_chars(text)), LAMBDA s :
        IF s = <<>> THEN <<0, <<>> >>
        ELSE IF StartsWith(s, SUB_BULLET_PREFIX)
        THEN <<1, Strip(Drop(s, Len(SUB_BULLET_PREFIX)))>>
        ELSE IF StartsWith(Strip(s), <<Bullet>>) /\ ~StartsWith(s, <<Bullet>>)
        THEN <<1, Strip(Drop(s, IndexOf(s, Bullet)))>>
        ELSE IF StartsWith(s, <<Bullet, " ">>) THEN <<1, Strip(Drop(s, 2))>>
        ELSE <<0, s>>)

\* A template as Presentation(BytesIO(template_bytes)) loads it: the layouts of the first
\* slide master in order, the slides in order, and the positions of the slides that a
\* custom show of presentation.xml lists (each listing is one more r:id reference).
Prs(slide_layouts, slides, custom_show) ==
    [slide_layouts |-> slide_layouts, slides |-> slides, custom_show |-> custom_show]

\* A slide part: one of the template (orig) or one added by the build, with its number
\* in the part name /ppt/slides/slide<n>.xml.
SlidePart(orig, n) == [kind |-> "slide", orig |-> orig, n |-> n]
MasterPart == [kind |-> "slideMaster"]

\* The presentation part after loading. rels: relationship ids (the k of rId<k>) to
\* target parts; sldIdLst: the r:id of each sldId in order; other_refs: the r:id
\* attributes of presentation.xml outside sldIdLst.
LoadPart(prs) ==
    [rels |-> [k \in 1..(Len(prs.slides) + 1) |->
                  IF k = 1 THEN MasterPart ELSE SlidePart(TRUE, k - 1)],
     sldIdLst |-> [i \in 1..Len(prs.slides) |-> i + 1],
     other_refs |-> <<1>> \o [i \in 1..Len(prs.custom_show) |-> prs.custom_show[i] + 1]]

\* The number of r:id attributes in the part's XML that name rId
rel_ref_count(part, rId) ==
    Cardinality({i \in 1..Len(part.sldIdLst) : part.sldIdLst[i] = rId})
    + Cardinality({i \in 1..Len(part.other_refs) : part.other_refs[i] = rId})

\* prs.part.drop_rel(rId): the relationship goes unless it is referenced twice or more
drop_rel(part, rId) ==
    IF rel_ref_count(part, rId) < 2
    THEN [part EXCEPT !.rels = [k \in (DOMAIN part.rels) \ {rId} |-> part.rels[k]]]
    ELSE part

\* _clear_all_slides_safely, one turn of its loop: the first sldId left
clear_slide(part) ==
    [drop_rel(part, part.sldIdLst[1]) EXCEPT !.sldIdLst = Tail(@)]

RECURSIVE clear_all_slides_safely(_)
clear_all_slides_safely(part) ==
    IF part.sldIdLst = <<>> THEN part ELSE clear_all_slides_safely(clear_slide(part))

\* The next unused relationship id of the part
next_rId(part) == CHOOSE k \in 1..(Cardinality(DOMAIN part.rels) + 1) :
                     /\ k \notin DOMAIN part.rels
                     /\ \A j \in 1..(k - 1) : j \in DOMAIN part.rels

\* prs.slides.add_slide(layout), on the presentation part: a new slide part named after
\* the length of sldIdLst, a relationship to it, and its sldId at the end
part_add_slide(part) ==
    Let(next_rId(part), LAMBDA rId :
        [part EXCEPT
            !.rels = [k \in (DOMAIN part.rels) \cup {rId} |->
                         IF k = rId THEN SlidePart(FALSE, Len(part.sldIdLst) + 1)
                         ELSE part.rels[k]],
            !.sldIdLst = Append(@, rId)])

\* The placeholder types that a new slide does not take over from its layout
LATENT_PH_TYPES == {"DATE", "FOOTER", "SLIDE_NUMBER"}

\* A new slide on the layout at position layout: its placeholders are cloned as text
\* shapes; text is None until something is written, else the paragraphs written.
\* of: 0 for the title slide, i for the slide of outline.slides[i].
NewBuiltSlide(layouts, layout, of) ==
    Let(SelectSeq(layouts[layout].placeholders, LAMBDA p : p.ptype \notin LATENT_PH_TYPES),
        LAMBDA phs :
            [of |-> of, layout |-> layout, preferred |-> None,
             shapes |-> [i \in 1..Len(phs) |-> [ptype |-> phs[i].ptype, text |-> None]],
             notes |-> None])

\* _title_placeholder: the position of the shape, None when the slide has no placeholder
title_placeholder(slide) ==
    Let({i \in 1..Len(slide.shapes) : slide.shapes[i].ptype \in {"TITLE", "CENTER_TITLE"}},
        LAMBDA hits :
            IF hits # {} THEN Some(CHOOSE i \in hits : \A j \in hits : i <= j)
            ELSE IF slide.shapes # <<>> THEN Some(1) ELSE None)

\* _content_placeholders: the positions of the shapes; evaluating PP_PLACEHOLDER.CONTENT
\* raises inside the try when the member is missing, and the shape is skipped
content_placeholders(slide, PP_PLACEHOLDER) ==
    IF PP_PLACEHOLDER.content = None THEN <<>>
    ELSE SortedSeq({i \in 1..Len(slide.shapes) :
                      slide.shapes[i].ptype \in {"BODY", PP_PLACEHOLDER.content[1], "SUBTITLE"}})

Paragraph(level, text) == [level |-> level, text |-> text]

\* _set_title
set_title(slide, title_text) ==
    Let(title_placeholder(slide), LAMBDA ph :
        IF ph = None THEN slide
        ELSE [slide EXCEPT
                 !.shapes[ph[1]].text = Some(<<Paragraph(0, strip_control_chars(title_text))>>)])

\* _set_bullets_single: the paragraphs of the text frame afterwards
set_bullets_single(bullets_in) ==
    Let(Take(bullets_in, BUILDER_MAX_BULLETS_PER_SLIDE), LAMBDA bullets :
        IF bullets = <<>> THEN <<Paragraph(0, <<>>)>>
        ELSE Let(MapSeq(bullets, bullet_level_and_text), LAMBDA lt :
                 <<Paragraph(MaxOf(0, MinOf(4, lt[1][1])), lt[1][2])>>
                 \o MapSeq(SelectSeq(Tail(lt), LAMBDA x : x[2] # <<>>),
                           LAMBDA x : Paragraph(MaxOf(0, MinOf(4, x[1])), x[2]))))

\* _set_bullets
set_bullets(slide, bullets_in, PP_PLACEHOLDER) ==
    Let(content_placeholders(slide, PP_PLACEHOLDER), LAMBDA placeholders :
    Let(Take(bullets_in, BUILDER_MAX_BULLETS_PER_SLIDE), LAMBDA bullets :
        IF placeholders = <<>> THEN slide
        ELSE IF Len(placeholders) >= 2 /\ Len(bullets) >= 6
        THEN Let((Len(bullets) + 1) \div 2, LAMBDA half :
                 [slide EXCEPT
                     !.shapes[placeholders[1]].text = Some(set_bullets_single(Take(bullets, half))),
                     !.shapes[placeholders[2]].text = Some(set_bullets_single(Drop(bullets, half)))])
        ELSE [slide EXCEPT !.shapes[placeholders[1]].text = Some(set_bullets_single(bullets))]))

\* The position of layout in prs.slide_layouts for the first layout that P accepts
FirstLayout(layouts, P(_)) ==
    Let({i \in 1..Len(layouts) : P(layouts[i])}, LAMBDA hits :
        IF hits = {} THEN None ELSE Some(CHOOSE i \in hits : \A j \in hits : i <= j))

HasPh(layout, types) == \E i \in 1..Len(layout.placeholders) : layout.placeholders[i].ptype \in types

\* _find_title_and_content_layout_index: evaluating PP_PLACEHOLDER.CONTENT raises inside
\* the try at the first placeholder of a layout when the member is missing, and the
\* layout is passed over
find_title_and_content_layout_index(layouts, PP_PLACEHOLDER) ==
    IF PP_PLACEHOLDER.content = None THEN None
    ELSE FirstLayout(layouts, LAMBDA layout :
             /\ HasPh(layout, {"TITLE"})
             /\ HasPh(layout, {"BODY", PP_PLACEHOLDER.content[1]}))

TITLE_LAYOUT_NAMES == <<S("Title Slide"), S("Section Header"), S("Title Only"), S("Title")>>

\* _find_title_layout_index
find_title_layout_index(layouts, PP_PLACEHOLDER) ==
    Let(find_preferred_layout(layouts, TITLE_LAYOUT_NAMES, PP_PLACEHOLDER), LAMBDA named :
        IF named # None THEN named
        ELSE Let(FirstLayout(layouts, LAMBDA layout : HasPh(layout, {"TITLE", "CENTER_TITLE"})),
                 LAMBDA titled :
                     IF titled # None THEN titled
                     ELSE IF layouts # <<>> THEN Some(1) ELSE None))

CONTENT_LAYOUT_NAMES ==
    <<S("Title and Content"), S("Two Content"), S("Content with Caption"), S("Blank")>>

\* build_presentation, the choice of the default content layout: by capability, else by
\* name, else the second layout if there is one, else the first
default_content_layout(layouts, PP_PLACEHOLDER) ==
    Let(find_title_and_content_layout_index(layouts, PP_PLACEHOLDER), LAMBDA capable :
        IF capable # None THEN capable[1]
        ELSE Let(find_preferred_layout(layouts, CONTENT_LAYOUT_NAMES, PP_PLACEHOLDER),
                 LAMBDA named :
                     IF named # None THEN named[1]
                     ELSE IF Len(layouts) > 1 THEN 2 ELSE 1))

\* The names that follow the requested one in the list given to find_preferred_layout
FALLBACK_CHAIN ==
    <<S("Title and Content"), S("Two Content"), S("Content with Caption"),
      S("Picture with Caption"), S("Blank")>>

\* build_presentation, the layout that find_preferred_layout gives for a slide, None
\* when it is not asked or finds none
preferred_layout(layouts, s, PP_PLACEHOLDER) ==
    IF Lower(Strip(IF s.layout = <<>> THEN L_auto ELSE s.layout)) # L_auto
    THEN find_preferred_layout(layouts, <<s.layout>> \o FALLBACK_CHAIN, PP_PLACEHOLDER)
    ELSE None

\* A build in progress: the template as loaded, the presentation part, the slides added
\* so far in the order of their sldId, and the position idx in outline.slides.
BpStart(outline, prs, reuse_images, PP_PLACEHOLDER) ==
    [pc |-> "clear", outline |-> outline, template |-> prs, reuse_images |-> reuse_images,
     PP_PLACEHOLDER |-> PP_PLACEHOLDER, part |-> LoadPart(prs), slides |-> <<>>,
     content_layout_idx |-> 0, idx |-> 0, saved |-> None]

\* build_presentation, lines 416-439: the title slide and the default content layout
title_slide(b) ==
    Let(b.template.slide_layouts, LAMBDA layouts :
        [b EXCEPT
            !.pc = "content",
            !.part = part_add_slide(@),
            !.slides = Append(@, set_title(
                           NewBuiltSlide(layouts,
                                         find_title_layout_index(layouts, b.PP_PLACEHOLDER)[1],
                                         0),
                           b.outline.title)),
            !.content_layout_idx = default_content_layout(layouts, b.PP_PLACEHOLDER)])

\* build_presentation, one turn of the loop over outline.slides
content_slide(b) ==
    Let(b.outline.slides[b.idx + 1], LAMBDA s :
    Let(preferred_layout(b.template.slide_layouts, s, b.PP_PLACEHOLDER), LAMBDA chosen :
    Let(NewBuiltSlide(b.template.slide_layouts,
                      IF chosen = None THEN b.content_layout_idx ELSE chosen[1],
                      b.idx + 1),
        LAMBDA slide :
            [b EXCEPT
                !.part = part_add_slide(@),
                !.idx = @ + 1,
                !.slides = Append(@,
                    [set_bullets(set_title(slide, s.title), s.bullets, b.PP_PLACEHOLDER)
                        EXCEPT !.preferred = chosen,
                               !.notes = IF s.notes = None THEN None
                                         ELSE Some(strip_control_chars(s.notes[1]))])])))

RECURSIVE content_slides(_)
content_slides(b) ==
    IF b.idx >= Len(b.outline.slides) THEN b ELSE content_slides(content_slide(b))

\* prs.save: the package written holds every part that a relationship of the presentation
\* part leads to. slides: the slide parts in sldIdLst order (what a viewer shows);
\* slide_parts: the slide parts in the package; built: what was put on the new slides.
save(b) ==
    [b EXCEPT
        !.pc = "saved",
        !.saved = Some([kind |-> "pptx",
                        slides |-> [i \in 1..Len(b.part.sldIdLst) |->
                                       b.part.rels[b.part.sldIdLst[i]]],
                        slide_parts |-> {b.part.rels[k] : k \in {j \in DOMAIN b.part.rels :
                                                         b.part.rels[j].kind = "slide"}},
                        built |-> b.slides])]

\* ------------------------------------------- pptx_builder.py, picture placement
\* Lengths are counted in tenths of an inch (91440 EMU), so that areas stay small; every
\* length of the templates below is a whole number of tenths. EMU_PER_INCH in that unit:
EMU_PER_INCH == 10

\* int(0.1 * EMU_PER_INCH), the pad that build_presentation passes to _choose_safe_zone
SAFE_PAD == EMU_PER_INCH \div 10

\* _rect
Rect(left, top, width, height) ==
    [left |-> MaxOf(0, left), top |-> MaxOf(0, top),
     width |-> MaxOf(0, width), height |-> MaxOf(0, height)]

\* _collect_text_zones, the placeholder types 1, 2, 3, 4 and 7
TEXT_ZONE_TYPES == {"TITLE", "BODY", "CENTER_TITLE", "SUBTITLE", "OBJECT"}

\* _collect_text_zones over the placeholders of a slide (slide.shapes holds pictures
\* too; a picture is no placeholder and has no text frame, so it adds no zone)
collect_text_zones(slide) ==
    MapSeq(SelectSeq(slide.shapes,
                     LAMBDA sh : sh.rect # None
                                 /\ (sh.ptype \in TEXT_ZONE_TYPES \/ sh.text_frame)),
           LAMBDA sh : Rect(sh.rect[1].left, sh.rect[1].top, sh.rect[1].width,
                            sh.rect[1].height))

\* _intersect_area
intersect_area(a, b) ==
    Let(MaxOf(a.left, b.left), LAMBDA ix1 :
    Let(MaxOf(a.top, b.top), LAMBDA iy1 :
    Let(MinOf(a.left + a.width, b.left + b.width), LAMBDA ix2 :
    Let(MinOf(a.top + a.height, b.top + b.height), LAMBDA iy2 :
        IF ix2 <= ix1 \/ iy2 <= iy1 THEN 0 ELSE (ix2 - ix1) * (iy2 - iy1)))))

\* _overlaps_any_text with thresh = 0.10: intersect / area > 0.10
overlaps_any_text(img, zones) ==
    \E i \in 1..Len(zones) :
        10 * intersect_area(img, zones[i]) > MaxOf(1, img.width * img.height)

\* x >= whole * 0.18
AtLeast18Percent(x, whole) == 100 * x >= 18 * whole

\* _choose_safe_zone; title_rect and body_rect are None or Some(rect)
choose_safe_zone(slide_w, slide_h, title_rect, body_rect, pad) ==
    Let(IF body_rect = None THEN Rect(0, 0, 0, 0) ELSE body_rect[1], LAMBDA body :
    Let(body.left + body.width + pad, LAMBDA right_left :
    Let(MaxOf(0, slide_w - right_left - pad), LAMBDA right_width :
    Let(body.top + body.height + pad, LAMBDA below_top :
    Let(MaxOf(0, slide_h - below_top - pad), LAMBDA below_height :
    Let(MaxOf(0, body.left - 2 * pad), LAMBDA left_width :
        IF body_rect # None /\ AtLeast18Percent(right_width, slide_w)
                            /\ AtLeast18Percent(body.height, slide_h)
        THEN Rect(right_left, body.top, right_width, body.height)
        ELSE IF body_rect # None /\ AtLeast18Percent(below_height, slide_h)
        THEN Rect(pad, below_top, MaxOf(0, slide_w - 2 * pad), below_height)
        ELSE IF body_rect # None /\ AtLeast18Percent(left_width, slide_w)
        THEN Rect(pad, body.top, left_width, body.height)
        ELSE IF title_rect # None
        THEN Let(title_rect[1].top + title_rect[1].height + pad, LAMBDA area_top :
                 Rect(pad, area_top, MaxOf(0, slide_w - 2 * pad),
                      MaxOf(0, slide_h - area_top - pad)))
        ELSE Rect((slide_w * 64) \div 100 + pad,
                  (slide_h * 18) \div 100 + pad,
                  MaxOf(0, (slide_w * 36) \div 100 - 2 * pad),
                  MaxOf(0, (slide_h * 72) \div 100 - 2 * pad))))))))

\* _fit_into_box: scale = min(bw / iw, bh / ih, 1.0), the new size is the integer part
\* of the scaled one, centred in the box
fit_into_box(img, box) ==
    Let(MaxOf(1, img.width), LAMBDA iw :
    Let(MaxOf(1, img.height), LAMBDA ih :
    Let(MaxOf(1, box.width), LAMBDA bw :
    Let(MaxOf(1, box.height), LAMBDA bh :
    Let(IF bw >= iw /\ bh >= ih THEN <<iw, ih>>
        ELSE IF bw * ih <= bh * iw THEN <<bw, (ih * bw) \div iw>>
        ELSE <<(iw * bh) \div ih, bh>>,
        LAMBDA n :
            Rect(box.left + (bw - n[1]) \div 2, box.top + (bh - n[2]) \div 2,
                 n[1], n[2]))))))

\* A picture of a template slide as _harvest_template_pictures records it
PicSpec(blob, left, top, width, height) ==
    [blob |-> blob, left |-> left, top |-> top, width |-> width, height |-> height]

\* _harvest_template_pictures: per slide, in slide order, the pictures in shape order
harvest_template_pictures(prs) == [i \in 1..Len(prs.slides) |-> prs.slides[i].pictures]

\* A template with its geometry: the slide size and the raster files of /ppt/media in
\* name order (what extract_template_images returns).
PrsGeo(slide_layouts, slides, slide_width, slide_height, media) ==
    [slide_layouts |-> slide_layouts, slides |-> slides, custom_show |-> <<>>,
     slide_width |-> slide_width, slide_height |-> slide_height, media |-> media]

\* A placeholder of a layout with its box
GPh(ptype, text_frame, rect) == [ptype |-> ptype, text_frame |-> text_frame, rect |-> rect]

\* prs.slides.add_slide(layout) with the shape tree: the placeholders are cloned in layout
\* order with the boxes they inherit. spTree is the z-order, bottom first: <<"ph", i>> is
\* shapes[i], <<"pic", k>> is pictures[k]. events: what was done to the slide, in order.
NewPlacedSlide(layouts, layout, of) ==
    Let(SelectSeq(layouts[layout].placeholders, LAMBDA p : p.ptype \notin LATENT_PH_TYPES),
        LAMBDA phs :
            [of |-> of, layout |-> layout, preferred |-> None,
             shapes |-> [i \in 1..Len(phs) |->
                            [ptype |-> phs[i].ptype, text |-> None, text_frame |-> TRUE,
                             rect |-> Some(phs[i].rect), filled |-> None]],
             notes |-> None,
             pictures |-> <<>>,
             spTree |-> [i \in 1..Len(phs) |-> <<"ph", i>>],
             events |-> <<>>])

\* slide.shapes.title: the position of the title placeholder, None without one
shapes_title(slide) ==
    Let({i \in 1..Len(slide.shapes) : slide.shapes[i].ptype \in {"TITLE", "CENTER_TITLE"}},
        LAMBDA hits :
            IF hits = {} THEN None ELSE Some(CHOOSE i \in hits : \A j \in hits : i <= j))

\* _first_picture_placeholder: evaluating PP_PLACEHOLDER.CONTENT raises inside the try
\* when the member is missing, and every shape is skipped
first_picture_placeholder(slide, PP_PLACEHOLDER) ==
    IF PP_PLACEHOLDER.content = None THEN None
    ELSE Let({i \in 1..Len(slide.shapes) :
                 slide.shapes[i].ptype \in {"PICTURE", PP_PLACEHOLDER.content[1]}},
             LAMBDA hits :
                 IF hits = {} THEN None ELSE Some(CHOOSE i \in hits : \A j \in hits : i <= j))

\* slide.shapes.add_picture: the picture goes to the end of the shape tree.
\* from: the box it had in the template (None for a media file), safe: the zone it was
\* fitted into (None when it kept its box)
add_picture(slide, blob, rect, from, safe) ==
    [slide EXCEPT
        !.pictures = Append(@, [blob |-> blob, rect |-> rect, from |-> from, safe |-> safe]),
        !.spTree = Append(@, <<"pic", Len(slide.pictures) + 1>>),
        !.events = Append(@, "picture")]

\* A build with image placement in progress. slide: the content slide being made; queue:
\* the harvested pictures not yet put on it; log: the steps taken on the presentation.
PlStart(outline, prs, reuse_images, PP_PLACEHOLDER) ==
    [pc |-> "harvest", outline |-> outline, template |-> prs, reuse_images |-> reuse_images,
     PP_PLACEHOLDER |-> PP_PLACEHOLDER, template_pictures |-> <<>>, part |-> LoadPart(prs),
     content_layout_idx |-> 0, idx |-> 0, slide |-> None, queue |-> <<>>,
     title_rect |-> None, body_rect |-> None, text_zones |-> <<>>, slides |-> <<>>,
     log |-> <<>>]

\* build_presentation, lines 408-411
place_harvest(b) ==
    [b EXCEPT
        !.pc = "clear",
        !.template_pictures = IF b.reuse_images THEN harvest_template_pictures(b.template)
                              ELSE <<>>,
        !.log = IF b.reuse_images THEN Append(@, "harvest") ELSE @]

\* build_presentation, lines 413-439: the slides are cleared, the title slide is added
\* and the default content layout is chosen
place_clear(b) ==
    Let(b.template.slide_layouts, LAMBDA layouts :
        [b EXCEPT
            !.pc = "add",
            !.part = part_add_slide(clear_all_slides_safely(@)),
            !.slides = <<set_title(
                           NewPlacedSlide(layouts,
                                          find_title_layout_index(layouts, b.PP_PLACEHOLDER)[1],
                                          0),
                           b.outline.title)>>,
            !.content_layout_idx = default_content_layout(layouts, b.PP_PLACEHOLDER),
            !.log = Append(@, "clear")])

\* build_presentation, lines 442-470: the slide is added on its layout, the text zones
\* are computed, and the pictures of the template slide at the same position are queued
place_add(b) ==
    Let(b.outline.slides[b.idx + 1], LAMBDA s :
    Let(preferred_layout(b.template.slide_layouts, s, b.PP_PLACEHOLDER), LAMBDA chosen :
    Let([NewPlacedSlide(b.template.slide_layouts,
                        IF chosen = None THEN b.content_layout_idx ELSE chosen[1],
                        b.idx + 1) EXCEPT !.preferred = chosen],
        LAMBDA slide :
    Let(content_placeholders(slide, b.PP_PLACEHOLDER), LAMBDA content :
    Let(b.reuse_images /\ b.template_pictures # <<>> /\ b.idx < Len(b.template_pictures),
        LAMBDA reuse :
            [b EXCEPT
                !.pc = IF reuse THEN "pictures" ELSE "fallback",
                !.part = part_add_slide(@),
                !.slide = Some(slide),
                !.title_rect = IF shapes_title(slide) = None THEN None
                               ELSE slide.shapes[shapes_title(slide)[1]].rect,
                !.body_rect = IF content = <<>> THEN None ELSE slide.shapes[content[1]].rect,
                !.text_zones = collect_text_zones(slide),
                !.queue = IF reuse THEN b.template_pictures[b.idx + 1] ELSE <<>>])))))

\* build_presentation, lines 471-488: one turn of the loop over the harvested pictures
place_picture(b) ==
    Let(Head(b.queue), LAMBDA pic :
    Let(Rect(pic.left, pic.top, pic.width, pic.height), LAMBDA target :
        IF overlaps_any_text(target, b.text_zones)
        THEN Let(choose_safe_zone(b.template.slide_width, b.template.slide_height,
                                  b.title_rect, b.body_rect, SAFE_PAD), LAMBDA safe :
                 [b EXCEPT
                     !.queue = Tail(@),
                     !.slide = Some(add_picture(b.slide[1], pic.blob,
                                                fit_into_box(target, safe),
                                                Some(target), Some(safe)))])
        ELSE [b EXCEPT
                 !.queue = Tail(@),
                 !.slide = Some(add_picture(b.slide[1], pic.blob, target, Some(target),
                                            None))]))

\* Inches(3.0) and Inches(0.5), Inches(1.0) of the right-side placement
FALLBACK_WIDTH == 3 * EMU_PER_INCH
FALLBACK_MARGIN == EMU_PER_INCH \div 2
FALLBACK_TOP == EMU_PER_INCH

\* build_presentation, lines 489-507: without harvested pictures for the slide, the first
\* media file goes into the first picture placeholder (insert_picture exists on a picture
\* placeholder only, on another one the call raises and nothing is placed), or to the
\* right side with a width of three inches and the height its own proportions give
place_fallback(b) ==
    Let(b.slide[1], LAMBDA slide :
    Let(first_picture_placeholder(slide, b.PP_PLACEHOLDER), LAMBDA ph :
    Let(Contains(Lower(b.template.slide_layouts[slide.layout].name), S("picture"))
        \/ ph # None,
        LAMBDA wants_picture :
            IF ~wants_picture \/ b.template.media = <<>>
            THEN [b EXCEPT !.pc = "text"]
            ELSE IF ph # None
            THEN [b EXCEPT
                     !.pc = "text",
                     !.slide = IF slide.shapes[ph[1]].ptype # "PICTURE" THEN @
                               ELSE Some([slide EXCEPT
                                             !.shapes[ph[1]].filled = Some(b.template.media[1]),
                                             !.shapes[ph[1]].text_frame = FALSE,
                                             !.events = Append(@, "picture")])]
            ELSE Let(b.template.media[1], LAMBDA blob :
                     [b EXCEPT
                         !.pc = "text",
                         !.slide = Some(add_picture(slide, blob,
                             Rect(MaxOf(0, b.template.slide_width - FALLBACK_WIDTH
                                           - FALLBACK_MARGIN),
                                  FALLBACK_TOP, FALLBACK_WIDTH,
                                  (FALLBACK_WIDTH * blob.height) \div blob.width),
                             None, None))]))))

\* build_presentation, lines 509-521: the title, the bullets and the notes are written
\* and the loop goes to the next outline slide
place_text(b) ==
    Let(b.outline.slides[b.idx + 1], LAMBDA s :
        [b EXCEPT
            !.pc = "add",
            !.idx = @ + 1,
            !.slide = None,
            !.queue = <<>>,
            !.slides = Append(@,
                [set_bullets(set_title(b.slide[1], s.title), s.bullets, b.PP_PLACEHOLDER)
                    EXCEPT !.events = Append(@, "text"),
                           !.notes = IF s.notes = None THEN None
                                     ELSE Some(strip_control_chars(s.notes[1]))])])

\* build_presentation, lines 523-526
place_save(b) == [b EXCEPT !.pc = "saved", !.log = Append(@, "save")]

\* ------------------------------------------------------- llm_clients.py

\* LLM_MAX_RETRIES, the default
MAX_RETRIES == 3

\* A backoff table that grows with the setting.
RETRY_BACKOFF_uncut(max_retries) ==
    [k \in 1..MaxOf(1, max_retries) |-> IF k <= 3 THEN <<0, 7, 16>>[k] ELSE 16]

\* RETRY_BACKOFF = [0.0, 0.7, 1.6][:max(1, MAX_RETRIES)], in tenths of a second
RETRY_BACKOFF(max_retries) == Take(<<0, 7, 16>>, MaxOf(1, max_retries))

\* What one requests.request(...) gives: an exception, or a response.
HttpExc(text) == [kind |-> "exc", status |-> 0, text |-> text, data |-> <<>>]
HttpResp(status, text, data) == [kind |-> "resp", status |-> status, text |-> text, data |-> data]

\* resp.status_code not in (429,) and resp.status_code < 500
returns_now(o) == o.kind = "resp" /\ o.status # 429 /\ o.status < 500

\* ALLOWED_LAYOUTS of llm_clients.py
LLM_ALLOWED_LAYOUTS ==
    {L_auto, L_TitleAndContent, L_TwoContent, L_ContentWithCaption,
     L_PictureWithCaption, L_Blank}

\* How a step of the LLM path ends: with a value, with an exception (its text), or by
\* going on to the Responses API.
LlmOk(v) == [k |-> "ok", v |-> v]
LlmExc(text) == [k |-> "exc", text |-> text]
LlmResponses == [k |-> "responses"]

\* The content of a message: the JSON value written in it and the form of the text around
\* it. "json": the value alone; "fenced": the value inside a code fence; "prose": a JSON
\* object with words before and after; "words": no brace at all; "broken": braces around
\* something that is no JSON; "notstr": the content is not a string.
Content(form, value) == [form |-> form, value |-> value]

\* The decoded body of a response: where the text sits and the text.
\* "chat": choices[0].message.content; "output": output[0].content[0].text;
\* "output_text": top-level output_text; "none": none of these; "notjson": resp.json() raises.
Data(shape, content) == [shape |-> shape, content |-> content]

\* _sanitize_json_text followed by json.loads of what it returns
sanitize_json_text(text) ==
    CASE text.form = "notstr" -> LlmExc(S("Model returned non-string content."))
      [] text.form \in {"json", "fenced", "prose"} -> LlmOk(text.value)
      [] text.form = "broken" ->
            LlmExc(S("Expecting property name enclosed in double quotes"))
      [] OTHER -> LlmExc(S("Model output did not contain a JSON object."))

\* the bullets of one slide: strings only, stripped, non-empty, clamped
llm_bullets(bullets_raw) ==
    IF bullets_raw.k # "list" THEN <<>>
    ELSE MapSeq(SelectSeq(bullets_raw.xs, LAMBDA b : b.k = "str" /\ Strip(b.s) # <<>>),
                LAMBDA b : JStr(Take(Strip(b.s), 200)))

llm_fixed_slide(sl, include_notes) ==
    JSlide(JStr(Take(Strip(IF Falsy(sl.title) THEN S("Slide") ELSE PyStr(sl.title)), 160)),
           JList(Take(llm_bullets(sl.bullets), 12)),
           JStr(IF Falsy(sl.layout) \/ sl.layout.k # "str"
                   \/ sl.layout.s \notin LLM_ALLOWED_LAYOUTS
                THEN L_auto ELSE sl.layout.s),
           IF include_notes THEN JStr(Take(PyStrOrEmpty(sl.notes), 600)) ELSE JAbsent,
           FALSE)

\* int(round(float(esc))) clamped, or the default when esc is no number
llm_esc(esc, n) ==
    IF esc.k = "num" THEN MaxOf(1, MinOf(60, esc.n))
    ELSE IF esc.k = "str" /\ \E m \in 0..99 : IntToStr(m) = Strip(esc.s)
    THEN MaxOf(1, MinOf(60, CHOOSE m \in 0..99 : IntToStr(m) = Strip(esc.s)))
    ELSE MaxOf(4, MinOf(40, n))

llm_fixed_slides(slides, include_notes) ==
    MapSeq(SelectSeq(IF slides.k # "list" \/ slides.xs = <<>>
                     THEN <<JSlide(JStr(S("Overview")), JList(<<>>), JStr(L_auto), JAbsent,
                                   FALSE)>>
                     ELSE slides.xs,
                     LAMBDA sl : sl.k = "dict"),
           LAMBDA sl : llm_fixed_slide(sl, include_notes))

validate_and_coerce_outline(obj, include_notes) ==
    IF obj.k # "dict" THEN LlmExc(S("Outline is not a JSON object."))
    ELSE IF ~Falsy(obj.title) /\ obj.title.k # "str"
    THEN LlmExc(S("object has no attribute 'strip'"))
    ELSE Let(llm_fixed_slides(obj.slides, include_notes), LAMBDA fixed :
             LlmOk(JOutline(JStr(Take(Strip(IF Falsy(obj.title) THEN S("Presentation")
                                            ELSE obj.title.s), 200)),
                            JList(Take(fixed, 60)),
                            JNum(llm_esc(obj.estimated_slide_count, Len(fixed))),
                            FALSE)))

\* sanitize, load and coerce the text of a message
outline_from_text(text, include_notes) ==
    Let(sanitize_json_text(text), LAMBDA js :
        IF js.k = "exc" THEN js ELSE validate_and_coerce_outline(js.v, include_notes))

\* The provider names plan_slides_via_llm refuses.
UNSUPPORTED_PROVIDERS ==
    {S("anthropic"), S("claude"), S("gemini"), S("google"), S("vertex")}

\* plan_slides_via_llm up to its HTTP call: the exception it raises at once, if any
plan_slides_refusal(provider, api_key) ==
    IF api_key = <<>>
    THEN Some(S("A valid API key/token is required (user-supplied; never stored)."))
    ELSE IF Lower(Strip(provider)) \in UNSUPPORTED_PROVIDERS
    THEN Some(S("This build supports OpenAI-compatible providers only (e.g., AI Pipe)."))
    ELSE None

\* _openai_chat_or_responses_json after its call of _request_with_backoff ended as b
chat_result(b, include_notes) ==
    IF b.pc = "raised" THEN LlmExc(b.raised[1])
    ELSE IF b.resp[1].status = 200
    THEN IF b.resp[1].data.shape = "notjson"
         THEN LlmExc(S("Expecting value: line 1 column 1 (char 0)"))
         ELSE IF b.resp[1].data.shape # "chat"
         THEN LlmExc(S("Unexpected chat response shape: ") \o b.resp[1].text)
         ELSE outline_from_text(b.resp[1].data.content, include_notes)
    ELSE IF b.resp[1].status \in {400, 404} THEN LlmResponses
    ELSE LlmExc(S("OpenAI-compatible error: ") \o IntToStr(b.resp[1].status) \o S(" ")
                \o b.resp[1].text)

\* The decoded body as a JSON value: an object without outline keys.
DataValue == JOutline(JAbsent, JAbsent, JAbsent, TRUE)

\* _openai_responses_json after its call of _request_with_backoff ended as b
responses_result(b, include_notes) ==
    IF b.pc = "raised" THEN LlmExc(b.raised[1])
    ELSE IF b.resp[1].status >= 400
    THEN LlmExc(S("OpenAI-compatible error (responses): ") \o IntToStr(b.resp[1].status)
                \o S(" ") \o b.resp[1].text)
    ELSE IF b.resp[1].data.shape = "notjson"
    THEN LlmExc(S("Expecting value: line 1 column 1 (char 0)"))
    ELSE outline_from_text(IF b.resp[1].data.shape = "none"
                              \/ b.resp[1].data.content.form = "notstr"
                           THEN Content("json", DataValue)
                           ELSE b.resp[1].data.content,
                           include_notes)

\* the parser's dict as the keyword arguments of Outline(**outline_dict)
AsRaw(d) ==
    JOutline(JStr(d.title),
             JList([i \in 1..Len(d.slides) |->
                      JSlide(JStr(d.slides[i].title),
                             JList([j \in 1..Len(d.slides[i].bullets) |->
                                      JStr(d.slides[i].bullets[j])]),
                             JStr(d.slides[i].layout),
                             IF d.slides[i].notes = None THEN JAbsent
                             ELSE JStr(d.slides[i].notes[1]),
                             FALSE)]),
             JNum(d.estimated_slide_count),
             FALSE)

\* ------------------------------------------------------ main.py: requests

MAX_FILE_MB == 20
MAX_TEXT_CHARS == 40000
ALLOWED_EXTS == {S(".pptx"), S(".potx")}
DEFAULT_PROVIDER == S("openai")

\* A request: the endpoint and its form fields; absent optional fields are None. text is
\* the document the text field holds, now the clock reading its response is stamped with.
Req(endpoint, filename, template, text, guidance, provider, api_key, include_notes,
    num_slides, reuse_images, now) ==
    [endpoint |-> endpoint, filename |-> filename, template |-> template, text |-> text,
     guidance |-> guidance, provider |-> provider, api_key |-> api_key,
     include_notes |-> include_notes, num_slides |-> num_slides,
     reuse_images |-> reuse_images, now |-> now]

\* A response: status, the detail of an error, the body of a success, the download name.
Response(status, detail, body, filename) ==
    [status |-> status, detail |-> detail, body |-> body, filename |-> filename]

\* v or ""
OrEmpty(v) == IF v = None THEN <<>> ELSE v[1]

\* _bool_from_form on a form string
bool_from_form(val) ==
    /\ val # None
    /\ Lower(Strip(val[1])) \in {S("1"), S("true"), S("yes"), S("on")}

\* _clamp_text: a text within MAX_TEXT_CHARS is returned as it is; the texts of the
\* requests below are all within it.
clamp_text(text) == text

\* _safe_filename
safe_filename(base) ==
    MapSeq(base, LAMBDA ch : IF ch \in AlnumChars \cup {"-", "_", ".", "(", ")"} THEN ch
                             ELSE "_")

\* os.path.splitext(name)[1]
splitext_ext(name) ==
    Let(LastWhere(name, LAMBDA c : c = "/"), LAMBDA sep :
    Let(LastWhere(name, LAMBDA c : c = "."), LAMBDA dot :
        IF dot > sep /\ \E i \in (sep + 1)..(dot - 1) : name[i] # "."
        THEN SubSeq(name, dot, Len(name)) ELSE <<>>))

\* ext, from template.filename
template_ext(filename) ==
    splitext_ext(Lower(IF OrEmpty(filename) = <<>> THEN S("template.pptx") ELSE filename[1]))

\* f"{size_mb:.1f}" for size_mb = len / (1024 * 1024)
size_mb_1f(len) ==
    LET q == (len * 10) \div (1024 * 1024)
        r == (len * 10) % (1024 * 1024)
        tenths == IF 2 * r > 1024 * 1024 \/ (2 * r = 1024 * 1024 /\ q % 2 = 1) THEN q + 1
                  ELSE q
    IN IntToStr(tenths \div 10) \o S(".") \o IntToStr(tenths % 10)

unsupported_type_detail(ext, exts) ==
    S("Unsupported file type: ") \o ext \o S(". Allowed: ") \o Join(exts, S(", "))

\* An upload that passes every size test.
too_large_unchecked(contents) == FALSE

\* len(contents) > MAX_FILE_MB * 1024 * 1024, which size_mb > MAX_FILE_MB also decides
too_large(contents) == contents.len > MAX_FILE_MB * 1024 * 1024

too_large_detail(endpoint, contents) ==
    IF endpoint = "template_info"
    THEN S("Template too large. Max is ") \o IntToStr(MAX_FILE_MB) \o S(" MB.")
    ELSE S("Template too large (") \o size_mb_1f(contents.len) \o S(" MB). Max is ")
         \o IntToStr(MAX_FILE_MB) \o S(" MB.")

\* analyze_template: the report on a template python-pptx can open, an exception otherwise
analyze_template(template_bytes) ==
    IF template_bytes.loadable THEN Ok([kind |-> "template_info", of |-> template_bytes.zip])
    ELSE Fail

\* build_presentation(outline, template_bytes, reuse_images) in a process whose python-pptx
\* defines PP_PLACEHOLDER: the package saved, an exception when python-pptx cannot open
\* the template or the template has no layout
build_presentation(outline, template_bytes, reuse_images, PP_PLACEHOLDER) ==
    IF template_bytes.prs = None THEN Fail
    ELSE IF template_bytes.prs[1].slide_layouts = <<>> THEN Fail
    ELSE Ok(save(content_slides(title_slide(
                [BpStart(outline, template_bytes.prs[1], reuse_images, PP_PLACEHOLDER)
                    EXCEPT !.part = clear_all_slides_safely(@)]))).saved[1])

\* A request in progress in a server process with hash seed seed and ALLOWED_EXTS listed in
\* the order exts. ran: the steps taken so far; exc: the text of the exception the LLM
\* path ended with; provider_text: the last body received; prev: the finished request
\* this one repeats.
RqStart(req, seed, exts) ==
    [pc |-> IF req.endpoint = "preview_outline" THEN "produce" ELSE "ext",
     req |-> req, seed |-> seed, exts |-> exts, PP_PLACEHOLDER |-> PpEnum(None), ran |-> <<>>, outline_dict |-> None,
     llm_failed |-> FALSE, exc |-> None, provider_text |-> None, outline |-> None,
     response |-> None, prev |-> None]

\* raise HTTPException(status, detail), and any other way a request ends
finish(q, response) == [q EXCEPT !.response = Some(response), !.pc = "done"]

INTERNAL_ERROR == Response(500, S("Internal Server Error"), None, <<>>)

\* outline_dict = heuristic_outline(text=text, guidance=guidance or "", include_notes=use_notes)
use_heuristic(q) ==
    [q EXCEPT !.outline_dict =
                  Some(AsRaw(heuristic_outline(clamp_text(q.req.text), OrEmpty(q.req.guidance),
                                               bool_from_form(q.req.include_notes), q.seed))),
              !.ran = Append(@, "heuristic_outline"),
              !.pc = "respond"]

\* A handler that lets the exception of the LLM path through.
on_llm_exception_raise(q, text) ==
    [finish(q, INTERNAL_ERROR) EXCEPT !.llm_failed = TRUE, !.exc = Some(text)]

\* A handler that reports the exception of the LLM path to the caller.
on_llm_exception_report(q, text) ==
    [finish(q, Response(502, text, None, <<>>)) EXCEPT !.llm_failed = TRUE, !.exc = Some(text)]

\* except Exception: outline_dict = heuristic_outline(...)
on_llm_exception(q, text) ==
    [use_heuristic(q) EXCEPT !.llm_failed = TRUE, !.exc = Some(text)]

\* The rest of preview_outline and generate_pptx: validation, slide counts, and for
\* generate_pptx the build and the download.
respond_with(q, outline) ==
    IF q.req.endpoint = "preview_outline"
    THEN finish([q EXCEPT !.outline = Some(outline)],
                Response(200, <<>>, Some(model_dump(outline)), <<>>))
    ELSE Let(build_presentation(outline, q.req.template[1],
                                bool_from_form(q.req.reuse_images), q.PP_PLACEHOLDER),
             LAMBDA built :
                 finish([q EXCEPT !.outline = Some(outline),
                                  !.ran = Append(@, "build_presentation")],
                        IF built.ok
                        THEN Response(200, <<>>, Some(built.v),
                                      safe_filename(S("Auto_PPT_Generator-") \o q.req.now)
                                      \o S(".pptx"))
                        ELSE Response(500,
                                      S("Failed to build PowerPoint from the provided template."),
                                      None, <<>>)))

respond(q) ==
    Let(Outline(q.outline_dict[1]), LAMBDA v :
        IF ~v.ok THEN finish(q, INTERNAL_ERROR)
        ELSE respond_with(q,
                 IF q.req.num_slides # None /\ q.req.num_slides[1] # 0
                 THEN enforce_target_slides(v.v, q.req.num_slides[1], MAIN_MAX_SLIDES)
                 ELSE ensure_min_slides(v.v, MAIN_MIN_SLIDES, MAIN_MAX_SLIDES)))

\* ------------------------------------------------------------ inputs

\* Largest string hash seed of a server process.
MaxSeed == 1
\* Largest requested slide count.
MaxTarget == 5

Sentence(k) == S("Point ") \o IntToStr(k) \o S(" matters.")

DocEmpty == <<>>
DocList ==
    <<Heading(S("Plan")),
      BulletList([k \in 1..9 |-> Item(S("step ") \o IntToStr(k), <<>>)])>>
DocProse ==
    <<Para(S("Mail bob@corp.com or ann@corp.io now. ") \o Rep("x", 170)
           \o S(" end. The contract has liability clauses."))>>
DocSecrets ==
    <<Heading(S("Contacts")),
      BulletList(<<Item(S("bob@corp.com"), <<>>), Item(S("ann@corp.io"), <<>>),
                   Item(S("see http://a.b/c for the market"), <<S("nested one")>>),
                   Item(S("the team"), <<>>)>>)>>
DocMany ==
    Flatten([k \in 1..(MAX_SLIDES + 2) |->
                <<Heading(S("H") \o IntToStr(k)), Para(Sentence(k))>>])
DocDense ==
    <<Heading(S("Dense")),
      BulletList([k \in 1..6 |-> Item(Rep(IntToStr(k)[1], 150), <<>>)])>>
DocHeadingOnly == <<Heading(S("Only"))>>
DocQuoteFence ==
    <<Quote(S("Stay hungry")), Fence(S("py"), S("a\nb\n")),
      Para(S("Patient dose is 5 mg. Growth of the market. Hire the team."))>>

DocKeys ==
    <<Para(S("Use sk-ABCDEFGHIJKLMNOP1 here. Visit https://x.io now. Ask ann@corp.io."))>>
DocEmphasis ==
    <<Heading(S("Team")),
      BulletList(<<Item(S("mail _bob@corp.com_ now"), <<>>),
                   Item(S("key sk-ABCDEFGHIJKLMNOP1"), <<>>)>>)>>

DocHtml ==
    <<Html(S("<div>") \o Join([k \in 1..7 |-> Sentence(k)], S(" ")) \o S("</div>"))>>

DocPitch ==
    <<Para(S("The market is big. Our problem is the market. Hire the team. ")
           \o S("The team ships fast."))>>
DocCrowd == <<Para(Join([k \in 1..8 |-> S("Market ") \o IntToStr(k) \o S(" is open.")], S(" ")))>>

\* a policy with seven rules, and a clinical summary with three long findings
DocPolicy ==
    <<Heading(S("Policy")),
      BulletList([k \in 1..7 |-> Item(S("rule ") \o IntToStr(k), <<>>)])>>
DocClinical ==
    <<Heading(S("Clinical")),
      BulletList([k \in 1..3 |-> Item(Rep(IntToStr(k)[1], 150), <<>>)])>>

Docs == {DocEmpty, DocList, DocProse, DocSecrets, DocMany, DocDense, DocHeadingOnly,
         DocQuoteFence, DocKeys, DocEmphasis, DocHtml, DocPitch, DocCrowd, DocPolicy,
         DocClinical}

\* The addresses, keys and links that the documents hold.
PlantedSecrets ==
    {S("bob@corp.com"), S("ann@corp.io"), S("http://a.b/c"), S("https://x.io"),
     S("sk-ABCDEFGHIJKLMNOP1")}

Guidances == {<<>>, S("investor pitch"), S("executive summary")}

JBullets(bs) == JList([i \in 1..Len(bs) |-> JStr(bs[i])])
JPlain(title, bs) == JSlide(JStr(title), JBullets(bs), JAbsent, JAbsent, FALSE)

RawDeclared ==
    JOutline(JStr(S("T")), JList(<<JSlide(JStr(S("A")), JAbsent, JAbsent, JAbsent, FALSE)>>),
             JNum(50), FALSE)
RawMessy ==
    JOutline(JStr(S("  Deck ") \o <<NUL>> \o S("\ttitle ") \o Rep("t", 210)),
             JList(<<JSlide(JStr(S(" First ")),
                            JList(<<JStr(S("one")), JStr(S("two\nthree")), JStr(S("one ")),
                                    JStr(Rep("b", 250)), JNum(4), JStr(S("five")),
                                    JStr(S("six")), JStr(S("seven")), JStr(S("eight")),
                                    JStr(<<"a", " ", NUL, " ", "b">>)>>),
                            JStr(S("Two-Content")), JStr(S("  ")), FALSE),
                     JSlide(JNum(7), JStr(S("x\ny\n\nx")), JStr(S("poster")),
                            JStr(S("say  this")), FALSE)>>),
             JAbsent, FALSE)
RawSingle ==
    JOutline(JNull, JSlide(JStr(<<>>), JNull, JNull, JNull, FALSE), JNull, FALSE)
RawContPair ==
    JOutline(JStr(S("Pairs")),
             JList(<<JPlain(S("A"), <<S("a1"), S("a2"), S("a3"), S("a4")>>),
                     JPlain(S("A (cont.)"), <<S("a5"), S("a6"), S("a7"), S("a8")>>),
                     JPlain(S("B"), <<S("b1")>>)>>),
             JAbsent, FALSE)
RawContChain ==
    JOutline(JStr(S("Chain")),
             JList(<<JPlain(S("A"), <<S("a1")>>), JPlain(S("A (cont.)"), <<S("a2")>>),
                     JPlain(S("B"), <<S("b1")>>), JPlain(S("B (cont.)"), <<S("b2")>>)>>),
             JNum(4), FALSE)
RawExtraKey ==
    JOutline(JStr(S("T")), JList(<<JPlain(S("A"), <<>>)>>), JAbsent, TRUE)
RawNoTitle == JOutline(JAbsent, JList(<<JPlain(S("A"), <<>>)>>), JAbsent, FALSE)
RawNoSlides == JOutline(JStr(S("Empty")), JList(<<>>), JNum(0), FALSE)
RawBlankSlide ==
    JOutline(JStr(S("Blanks")),
             JList(<<JPlain(S("  "), <<S(" ")>>),
                     JPlain(S("Dense"), [k \in 1..7 |-> S("d") \o IntToStr(k)])>>),
             JNum(2), FALSE)

RawCountText ==
    JOutline(JStr(S("T")), JList(<<JPlain(S("A"), <<>>)>>), JStr(S("many")), FALSE)
RawCountDigits ==
    JOutline(JStr(S("T")), JList(<<JPlain(S("A"), <<>>)>>), JStr(S(" 12 ")), FALSE)
RawSlidesNull == JOutline(JStr(S("T")), JNull, JAbsent, FALSE)
RawSlideText == JOutline(JStr(S("T")), JList(<<JStr(S("A"))>>), JAbsent, FALSE)
RawSlideExtraKey ==
    JOutline(JStr(S("T")), JList(<<JSlide(JStr(S("A")), JAbsent, JAbsent, JAbsent, TRUE)>>),
             JAbsent, FALSE)

\* A slide followed by two continuation slides.
RawTriple ==
    JOutline(JStr(S("Triple")),
             JList(<<JPlain(S("A"), <<S("a1")>>), JPlain(S("A (cont.)"), <<S("a2")>>),
                     JPlain(S("A (cont.)"), <<S("a3")>>), JPlain(S("B"), <<S("b1")>>)>>),
             JAbsent, FALSE)

\* Seven slides, the first of them with seven bullets.
RawSeven ==
    JOutline(JStr(S("T")),
             JList(<<JPlain(S("A"), [k \in 1..7 |-> S("b") \o IntToStr(k)])>>
                   \o [k \in 1..6 |-> JPlain(S("P") \o IntToStr(k), <<>>)]),
             JAbsent, FALSE)

RawOutlines == {RawDeclared, RawMessy, RawSingle, RawContPair, RawContChain, RawExtraKey,
                RawNoTitle, RawNoSlides, RawBlankSlide, RawCountText, RawCountDigits,
                RawSlidesNull, RawSlideText, RawSlideExtraKey, RawSeven, RawTriple}

\* Layouts as templates have them.
LY_TitleSlide == Layout(S("Title Slide"), <<Ph("CENTER_TITLE", TRUE), Ph("SUBTITLE", TRUE)>>)
LY_TitleContent ==
    Layout(S("Title and Content"),
           <<Ph("TITLE", TRUE), Ph("OBJECT", TRUE), Ph("DATE", TRUE), Ph("FOOTER", TRUE)>>)
LY_TwoContent ==
    Layout(S("Two Content"), <<Ph("TITLE", TRUE), Ph("OBJECT", TRUE), Ph("OBJECT", TRUE)>>)
\* named Two Content in capitals, with two body placeholders and no title
LY_TwoBodies == Layout(S("TWO CONTENT"), <<Ph("BODY", TRUE), Ph("BODY", TRUE)>>)
\* named Two Content, with one text region
LY_TwoThin == Layout(S("Two Content"), <<Ph("BODY", TRUE)>>)
LY_Blank == Layout(S("Blank"), <<>>)
LY_PictureCaption ==
    Layout(S("Picture with Caption"),
           <<Ph("TITLE", TRUE), Ph("PICTURE", TRUE), Ph("BODY", TRUE)>>)
\* a layout of a localized template, its picture region a p:pic element
LY_Custom == Layout(S("Eigenes Layout"), <<Ph("PICTURE", FALSE)>>)
LayoutKinds ==
    {LY_TitleSlide, LY_TitleContent, LY_TwoContent, LY_TwoBodies, LY_TwoThin, LY_Blank,
     LY_PictureCaption, LY_Custom}

\* The most layouts and the most slides of a template.
MaxLayouts == 2
MaxTemplateSlides == 2

\* A slide of a template.
TSlide == [pictures |-> <<>>]

\* Templates: every order of up to MaxLayouts layouts, up to MaxTemplateSlides slides,
\* with or without a custom show that lists the first slide.
LayoutOrders == UNION {[1..k -> LayoutKinds] : k \in 1..MaxLayouts}
Templates ==
    UNION {{Prs(ls, [i \in 1..n |-> TSlide], cs) :
               ls \in LayoutOrders, cs \in IF n = 0 THEN {<<>>} ELSE {<<>>, <<1>>}} :
           n \in 0..MaxTemplateSlides}

\* The template of the uploads whose content does not matter.
T_Plain == Prs(<<LY_TitleSlide, LY_TitleContent>>, <<TSlide>>, <<>>)

\* Validated outlines for the builder.
O_Auto ==
    NewOutline(S("Deck"), <<NewSlide(S("Agenda"), <<S("one"), S("two")>>, L_auto, None)>>, None)
O_Two ==
    NewOutline(S("Plan"),
               <<NewSlide(S("Compare"),
                          <<S("a"), S("b"), SUB_BULLET_PREFIX \o S("b1"), S("c"), S("d"),
                            S("e"), S("f")>>,
                          L_TwoContent, Some(S("say this"))),
                 NewSlide(S("Close"), <<>>, L_auto, None)>>,
               None)
O_Mixed ==
    NewOutline(S("Tour"),
               <<NewSlide(S("Photo"), <<S("caption")>>, L_PictureWithCaption, None),
                 NewSlide(S("Pause"), <<>>, L_Blank, None),
                 NewSlide(S("Sides"), <<S("left"), S("right")>>, L_TwoContent, None)>>,
               None)
BuildOutlines == {O_Auto, O_Two, O_Mixed}

\* ------------------------------------------------------- outline pipeline
\* The outline functions applied in the order the request handlers compose them: a producer
\* (the parser, or a raw outline as an LLM returns it), Outline(**outline_dict), a second
\* validation of the dump, the slide-count normalizer and the normalizer once more.

\* The settings <<MIN_SLIDES, MAX_SLIDES>> of main.py that the deployments use: the
\* defaults, small ones, and one above the slide cap of the schema.
SlideLimits ==
    {<<MAIN_MIN_SLIDES, MAIN_MAX_SLIDES>>, <<2, 3>>, <<3, 3>>,
     <<MAX_TOTAL_SLIDES + 1, MAX_TOTAL_SLIDES + 1>>}

VARIABLES fx, zp, rb, rq, bp

FxText(d, g, n, sd) ==
    [stage |-> "text", doc |-> d, guidance |-> g, include_notes |-> n, seed |-> sd,
     outline_dict |-> None, parsed |-> None, validated |-> None, revalidated |-> None,
     target |-> None, limits |-> None, normalized |-> None, renormalized |-> None]
FxRaw(r) ==
    [stage |-> "produced", doc |-> <<>>, guidance |-> <<>>, include_notes |-> FALSE,
     seed |-> 0, outline_dict |-> Some(r), parsed |-> None, validated |-> None,
     revalidated |-> None, target |-> None, limits |-> None, normalized |-> None,
     renormalized |-> None]
FxIdle == [FxText(<<>>, <<>>, FALSE, 0) EXCEPT !.stage = "idle"]

\* The other machines at rest.
ZpIdle == [stage |-> "idle", template_bytes |-> None, verdict |-> None]
RbIdle ==
    [pc |-> "idle", max_retries |-> 0, call |-> None, attempt |-> 0, last |-> None,
     slept |-> <<>>, last_exc |-> None, resp |-> None, raised |-> None]
RqIdle ==
    [RqStart(Req("none", None, None, <<>>, None, <<>>, None, None, None, None, <<>>), 0, <<>>)
        EXCEPT !.pc = "idle"]

BpIdle == [BpStart(O_Auto, T_Plain, FALSE, PpEnum(None)) EXCEPT !.pc = "idle"]

InitOutline ==
    /\ fx \in {FxText(d, g, n, sd) : d \in Docs, g \in Guidances, n \in BOOLEAN,
                                      sd \in 0..MaxSeed}
              \cup {FxRaw(r) : r \in RawOutlines}
    /\ zp = ZpIdle
    /\ rb = RbIdle
    /\ rq = RqIdle
    /\ bp = BpIdle

HeuristicOutline ==
    /\ fx.stage = "text"
    /\ fx' = Let(heuristic_outline(fx.doc, fx.guidance, fx.include_notes, fx.seed),
                 LAMBDA o : [fx EXCEPT !.parsed = Some(o), !.outline_dict = Some(AsRaw(o)),
                                       !.stage = "produced"])
    /\ UNCHANGED <<zp, rb, rq, bp>>

ValidateOutline ==
    /\ fx.stage = "produced"
    /\ fx' = Let(Outline(fx.outline_dict[1]), LAMBDA v :
                 IF v.ok THEN [fx EXCEPT !.validated = Some(v.v), !.stage = "validated"]
                 ELSE [fx EXCEPT !.stage = "rejected"])
    /\ UNCHANGED <<zp, rb, rq, bp>>

RevalidateDump ==
    /\ fx.stage = "validated"
    /\ fx' = [fx EXCEPT !.revalidated = Some(Outline(model_dump(fx.validated[1]))),
                        !.stage = "revalidated"]
    /\ UNCHANGED <<zp, rb, rq, bp>>

EnforceTargetSlides ==
    /\ fx.stage = "revalidated"
    /\ \E n \in 1..MaxTarget :
          fx' = [fx EXCEPT !.target = Some(n),
                           !.normalized = Some(enforce_target_slides(fx.validated[1], n,
                                                                     MAIN_MAX_SLIDES)),
                           !.stage = "normalized"]
    /\ UNCHANGED <<zp, rb, rq, bp>>

EnsureMinSlides ==
    /\ fx.stage = "revalidated"
    /\ \E lim \in SlideLimits :
          fx' = [fx EXCEPT !.limits = Some(lim),
                           !.normalized = Some(ensure_min_slides(fx.validated[1], lim[1],
                                                                 lim[2])),
                           !.stage = "normalized"]
    /\ UNCHANGED <<zp, rb, rq, bp>>

NormalizeAgain ==
    /\ fx.stage = "normalized"
    /\ fx' = [fx EXCEPT !.renormalized =
                            Some(IF fx.target # None
                                 THEN enforce_target_slides(fx.normalized[1], fx.target[1],
                                                            MAIN_MAX_SLIDES)
                                 ELSE ensure_min_slides(fx.normalized[1], fx.limits[1][1],
                                                        fx.limits[1][2])),
                        !.stage = "done"]
    /\ UNCHANGED <<zp, rb, rq, bp>>



NextOutline ==
    \/ HeuristicOutline
    \/ ValidateOutline
    \/ RevalidateDump
    \/ EnforceTargetSlides
    \/ EnsureMinSlides
    \/ NormalizeAgain

vars == <<fx, zp, rb, rq, bp>>

SpecOutline == InitOutline /\ [][NextOutline]_vars

\* ------------------------------------------------------ token pass
\* Pass 1 of heuristic_outline, one iteration of its token loop at a time.

FxPass(d, g, n) ==
    [stage |-> "tokens", doc |-> d, guidance |-> g, include_notes |-> n,
     pass |-> [i |-> 1, slides |-> <<>>, current_title |-> <<>>,
               current_bullets |-> <<>>, list_level |-> 0]]

InitPass ==
    /\ fx \in {FxPass(d, g, n) : d \in Docs, g \in Guidances, n \in BOOLEAN}
    /\ zp = ZpIdle
    /\ rb = RbIdle
    /\ rq = RqIdle
    /\ bp = BpIdle

\* One iteration of `while i < L`.
PassToken ==
    /\ fx.stage = "tokens"
    /\ fx.pass.i <= Len(md_parse(fx.doc))
    /\ fx' = [fx EXCEPT !.pass = Pass1Step(@, md_parse(fx.doc),
                                           layout_bias_from_guidance(fx.guidance),
                                           fx.include_notes)]
    /\ UNCHANGED <<zp, rb, rq, bp>>

\* The flush_slide() after the loop.
PassFlush ==
    /\ fx.stage = "tokens"
    /\ fx.pass.i > Len(md_parse(fx.doc))
    /\ fx' = [fx EXCEPT !.stage = "extracted",
                        !.pass.slides = flush_slide(@, fx.pass.current_title,
                                                    fx.pass.current_bullets,
                                                    layout_bias_from_guidance(fx.guidance),
                                                    fx.include_notes),
                        !.pass.current_title = <<>>,
                        !.pass.current_bullets = <<>>]
    /\ UNCHANGED <<zp, rb, rq, bp>>

NextPass ==
    \/ PassToken
    \/ PassFlush

SpecPass == InitPass /\ [][NextPass]_vars

\* ------------------------------------------------------ template safety
\* is_safe_pptx applied to uploaded archives.

\* Largest number of extra entries put into an archive.
MaxExtraEntries == 2

E_ContentTypes == ZipEntry(S("[Content_Types].xml"), 1200, 400)
E_Presentation == ZipEntry(S("ppt/presentation.xml"), 3000, 900)
E_Dir == ZipEntry(S("ppt/media/"), 0, 0)
E_OverMember == ZipEntry(S("ppt/media/big.bin"), MAX_ZIP_MEMBER_MB * 1024 * 1024 + 1,
                         MAX_ZIP_MEMBER_MB * 1024 * 1024 + 1)
E_AtMember == ZipEntry(S("ppt/media/full.bin"), MAX_ZIP_MEMBER_MB * 1024 * 1024,
                       MAX_ZIP_MEMBER_MB * 1024 * 1024)
E_AtRatio == ZipEntry(S("ppt/media/r200.bin"), MAX_COMPRESSION_RATIO * 1000, 1000)
E_OverRatio == ZipEntry(S("ppt/media/r201.bin"), MAX_COMPRESSION_RATIO * 1000 + 1, 1000)
E_ZeroCompressed == ZipEntry(S("ppt/media/bomb.bin"), 1000000, 0)
E_Empty == ZipEntry(S("ppt/empty.xml"), 0, 0)
E_NestedRoot == ZipEntry(S("copy/ppt/presentation.xml"), 3000, 900)

ExtraEntries ==
    {E_Dir, E_OverMember, E_AtMember, E_AtRatio, E_OverRatio, E_ZeroCompressed, E_Empty,
     E_NestedRoot}

PlainZip(entries) == Zip(TRUE, entries, 0)

ZipArchives ==
    {PlainZip(<<E_ContentTypes, E_Presentation>> \o xs) :
        xs \in UNION {[1..n -> ExtraEntries] : n \in 0..MaxExtraEntries}}
    \cup {Zip(FALSE, <<>>, 0),
          PlainZip(<<>>),
          PlainZip(<<E_Presentation>>),
          PlainZip(<<E_ContentTypes>>),
          PlainZip(<<E_ContentTypes, E_NestedRoot>>),
          Zip(TRUE, <<E_ContentTypes, E_Presentation>>, MAX_ZIP_ENTRIES - 2),
          Zip(TRUE, <<E_ContentTypes, E_Presentation>>, MAX_ZIP_ENTRIES - 1),
          PlainZip(<<E_ContentTypes, E_Presentation, E_AtMember, E_AtMember, E_AtMember>>),
          PlainZip(<<E_ContentTypes, E_Presentation, E_AtMember, E_AtMember, E_AtMember,
                     E_AtMember>>)}

InitSafe ==
    /\ zp \in {[stage |-> "received", template_bytes |-> Some(Upload(40000, z, IF z.wellformed THEN Some(T_Plain) ELSE None)),
                verdict |-> None] : z \in ZipArchives}
    /\ fx = FxIdle
    /\ rb = RbIdle
    /\ rq = RqIdle
    /\ bp = BpIdle

IsSafePptx ==
    /\ zp.stage = "received"
    /\ zp' = [zp EXCEPT !.verdict = Some(is_safe_pptx(zp.template_bytes[1], MAX_ZIP_ENTRIES,
                                                      MAX_ZIP_MEMBER_MB, MAX_ZIP_TOTAL_MB,
                                                      MAX_COMPRESSION_RATIO)),
                        !.stage = "checked"]
    /\ UNCHANGED <<fx, rb, rq, bp>>

NextSafe == IsSafePptx

SpecSafe == InitSafe /\ [][NextSafe]_vars

\* ------------------------------------------------------- request backoff
\* One call of _request_with_backoff under a MAX_RETRIES setting; each attempt gets
\* whatever the network and the provider give.

\* Largest LLM_MAX_RETRIES setting.
MaxRetriesSetting == 4

RbStart(max_retries, call) ==
    [RbIdle EXCEPT !.pc = "loop", !.max_retries = max_retries, !.call = Some(call)]

Timeout == HttpExc(S("Read timed out."))

\* What a bare call can get.
BareOutcomes ==
    {Timeout, HttpExc(S("Connection reset")),
     HttpResp(200, S("{}"), <<>>), HttpResp(400, S("bad request"), <<>>),
     HttpResp(401, S("unauthorized"), <<>>), HttpResp(404, S("not found"), <<>>),
     HttpResp(429, S("slow down"), <<>>), HttpResp(499, S("closed"), <<>>),
     HttpResp(500, S("server error"), <<>>), HttpResp(503, S("unavailable"), <<>>)}

K1 == S("tok-alpha-1")
K2 == S("tok-beta-22")

V_Good ==
    JOutline(JStr(S(" Quarterly plan ")),
             JList(<<JSlide(JStr(S("Goals")), JBullets(<<S("ship"), S(" grow "), <<>>>>),
                            JStr(S("Two Content")), JStr(S("say it")), FALSE),
                     JSlide(JNull, JStr(S("x")), JStr(S("poster")), JAbsent, FALSE),
                     JNum(3)>>),
             JStr(S("2")), FALSE)
V_List == JList(<<JNum(1)>>)
V_NumTitle == JOutline(JNum(7), JList(<<>>), JAbsent, FALSE)

NoData == Data("notjson", Content("notstr", JNull))
Reply(shape, form, value) == HttpResp(200, S("{id: r1}"), Data(shape, Content(form, value)))
Unauthorized(api_key) == HttpResp(401, S("Incorrect API key provided: ") \o api_key, NoData)

\* What the provider and the network can give to one attempt of an LLM call.
ProviderOutcomes(call) ==
    {Timeout, HttpResp(503, S("upstream unavailable"), NoData), Unauthorized(call.api_key),
     Reply("none", "json", JNull), Reply("notjson", "json", JNull)}
    \cup (IF call.api = "chat"
          THEN {HttpResp(404, S("no such route"), NoData), HttpResp(400, S("bad request"), NoData),
                Reply("chat", "json", V_Good), Reply("chat", "prose", V_Good),
                Reply("chat", "words", JNull), Reply("chat", "broken", JNull),
                Reply("chat", "notstr", JNull), Reply("chat", "json", V_List),
                Reply("chat", "json", V_NumTitle)}
          ELSE {Reply("output", "fenced", V_Good), Reply("output_text", "words", JNull),
                Reply("chat", "notstr", JNull)})

\* What the network and the provider can give to one attempt of a call.
Outcomes(call) == IF call.api = "bare" THEN BareOutcomes ELSE ProviderOutcomes(call)

\* An attempt of the loop whose response is returned.
AttemptReturns ==
    /\ rb.pc = "loop"
    /\ rb.attempt < Len(RETRY_BACKOFF(rb.max_retries))
    /\ \E o \in Outcomes(rb.call[1]) :
          /\ returns_now(o)
          /\ rb' = [rb EXCEPT !.attempt = @ + 1, !.last = Some(o), !.resp = Some(o),
                              !.pc = "returned"]
    /\ UNCHANGED <<fx, zp, rq, bp>>

\* An attempt that raised or got 429/5xx, and the sleep after it.
AttemptFails ==
    /\ rb.pc = "loop"
    /\ rb.attempt < Len(RETRY_BACKOFF(rb.max_retries))
    /\ \E o \in Outcomes(rb.call[1]) :
          /\ ~returns_now(o)
          /\ rb' = [rb EXCEPT !.attempt = @ + 1, !.last = Some(o),
                              !.last_exc = IF o.kind = "exc" THEN Some(o.text) ELSE @,
                              !.slept = Append(@, RETRY_BACKOFF(rb.max_retries)[rb.attempt + 1])]
    /\ UNCHANGED <<fx, zp, rq, bp>>

\* The loop is over without a return.
RaiseAfterRetries ==
    /\ rb.pc = "loop"
    /\ rb.attempt >= Len(RETRY_BACKOFF(rb.max_retries))
    /\ rb' = [rb EXCEPT !.raised = IF rb.last_exc # None THEN rb.last_exc
                                   ELSE Some(S("LLM request failed after retries.")),
                        !.pc = "raised"]
    /\ UNCHANGED <<fx, zp, rq, bp>>

InitBackoff ==
    /\ rb \in {RbStart(m, [api |-> "bare"]) : m \in -1..MaxRetriesSetting}
    /\ fx = FxIdle
    /\ zp = ZpIdle
    /\ rq = RqIdle
    /\ bp = BpIdle

NextBackoff ==
    \/ AttemptReturns
    \/ AttemptFails
    \/ RaiseAfterRetries

SpecBackoff == InitBackoff /\ [][NextBackoff]_vars

\* Every attempt ends (the request has a timeout) and every sleep is finite, so the loop
\* keeps taking its steps.
FairSpecBackoff == SpecBackoff /\ WF_vars(NextBackoff)

\* ------------------------------------------------------------ deck building
\* build_presentation step by step: the template's slides are cleared one by one, the
\* title slide is added, then one slide per outline slide, then the package is saved.

InitBuild ==
    /\ bp \in {BpStart(o, t, FALSE, pp) :
                  o \in BuildOutlines, t \in Templates, pp \in PlaceholderEnums}
    /\ fx = FxIdle
    /\ zp = ZpIdle
    /\ rb = RbIdle
    /\ rq = RqIdle

ClearSlide ==
    /\ bp.pc = "clear"
    /\ bp.part.sldIdLst # <<>>
    /\ bp' = [bp EXCEPT !.part = clear_slide(@)]
    /\ UNCHANGED <<fx, zp, rb, rq>>

AddTitleSlide ==
    /\ bp.pc = "clear"
    /\ bp.part.sldIdLst = <<>>
    /\ bp' = title_slide(bp)
    /\ UNCHANGED <<fx, zp, rb, rq>>

AddContentSlide ==
    /\ bp.pc = "content"
    /\ bp.idx < Len(bp.outline.slides)
    /\ bp' = content_slide(bp)
    /\ UNCHANGED <<fx, zp, rb, rq>>

SavePackage ==
    /\ bp.pc = "content"
    /\ bp.idx >= Len(bp.outline.slides)
    /\ bp' = save(bp)
    /\ UNCHANGED <<fx, zp, rb, rq>>

NextBuild ==
    \/ ClearSlide
    \/ AddTitleSlide
    \/ AddContentSlide
    \/ SavePackage

SpecBuild == InitBuild /\ [][NextBuild]_vars

\* ------------------------------------------------------------ picture placement
\* build_presentation with the geometry of the template: the pictures are harvested, the
\* slides cleared and the title slide added, then for each outline slide the slide is
\* added, its pictures are inserted one by one and its text is written.

\* A 4:3 slide of 10 by 7.5 inches
SLIDE_W == 10 * EMU_PER_INCH
SLIDE_H == (15 * EMU_PER_INCH) \div 2

\* Layouts with the boxes of the default template of PowerPoint, and two others
G_TitleSlide ==
    Layout(S("Title Slide"), <<GPh("CENTER_TITLE", TRUE, Rect(7, 23, 86, 16)),
                               GPh("SUBTITLE", TRUE, Rect(15, 42, 70, 19))>>)
G_TitleContent ==
    Layout(S("Title and Content"), <<GPh("TITLE", TRUE, Rect(5, 3, 90, 12)),
                                     GPh("OBJECT", TRUE, Rect(5, 17, 90, 50)),
                                     GPh("DATE", TRUE, Rect(5, 69, 21, 4))>>)
G_TwoContent ==
    Layout(S("Two Content"), <<GPh("TITLE", TRUE, Rect(5, 3, 90, 12)),
                               GPh("OBJECT", TRUE, Rect(5, 17, 44, 50)),
                               GPh("OBJECT", TRUE, Rect(51, 17, 44, 50))>>)
\* a body placeholder on the left half, nothing on the right
G_LeftBody ==
    Layout(S("Title and Content"), <<GPh("TITLE", TRUE, Rect(5, 3, 50, 12)),
                                     GPh("BODY", TRUE, Rect(5, 17, 50, 50))>>)
G_PictureCaption ==
    Layout(S("Picture with Caption"), <<GPh("TITLE", TRUE, Rect(5, 48, 55, 6)),
                                        GPh("PICTURE", TRUE, Rect(18, 6, 55, 41)),
                                        GPh("BODY", TRUE, Rect(18, 54, 55, 8))>>)
G_Blank == Layout(S("Blank"), <<>>)

GeoLayoutLists ==
    {<<G_TitleSlide, G_TitleContent>>,
     <<G_TitleSlide, G_TitleContent, G_TwoContent, G_PictureCaption, G_Blank>>,
     <<G_TitleSlide, G_LeftBody, G_Blank>>,
     <<G_Blank>>}

\* Image files of a template with their own size
BlobLogo == [name |-> "image1.png", width |-> 15, height |-> 10]
BlobPhoto == [name |-> "image2.jpg", width |-> 40, height |-> 30]
BlobBanner == [name |-> "image3.png", width |-> 100, height |-> 10]

\* Pictures on template slides: a logo in the lower right corner, a photo in the middle,
\* a banner along the top edge, a logo in the footer strip, a photo larger than the slide
PicCorner == PicSpec(BlobLogo, 80, 60, 15, 10)
PicMiddle == PicSpec(BlobPhoto, 30, 25, 40, 30)
PicBanner == PicSpec(BlobBanner, 0, 0, 100, 10)
PicFooter == PicSpec(BlobLogo, 40, 70, 6, 4)
PicBleed == PicSpec(BlobPhoto, 0, 0, 120, 90)

\* The slides of the templates: none, one without pictures, and slides with pictures
GeoSlideLists ==
    {<<>>,
     <<[pictures |-> <<>>]>>,
     <<[pictures |-> <<PicCorner>>]>>,
     <<[pictures |-> <<PicMiddle, PicFooter>>], [pictures |-> <<PicBanner>>]>>,
     <<[pictures |-> <<PicFooter>>], [pictures |-> <<PicBleed, PicCorner>>],
       [pictures |-> <<PicMiddle>>]>>}

\* media of a template: the image files of its slides, each once, in name order
MediaOf(slides) ==
    SelectSeq(<<BlobLogo, BlobPhoto, BlobBanner>>,
              LAMBDA blob : \E i \in 1..Len(slides) :
                                \E k \in 1..Len(slides[i].pictures) :
                                    slides[i].pictures[k].blob = blob)

GeoTemplates ==
    {PrsGeo(ls, sl, SLIDE_W, SLIDE_H, MediaOf(sl)) : ls \in GeoLayoutLists, sl \in GeoSlideLists}

InitPlace ==
    /\ bp \in {PlStart(o, t, reuse, pp) :
                  o \in BuildOutlines, t \in GeoTemplates, reuse \in BOOLEAN,
                  pp \in PlaceholderEnums}
    /\ fx = FxIdle
    /\ zp = ZpIdle
    /\ rb = RbIdle
    /\ rq = RqIdle

HarvestPictures ==
    /\ bp.pc = "harvest"
    /\ bp' = place_harvest(bp)
    /\ UNCHANGED <<fx, zp, rb, rq>>

ClearAndTitle ==
    /\ bp.pc = "clear"
    /\ bp' = place_clear(bp)
    /\ UNCHANGED <<fx, zp, rb, rq>>

AddPlacedSlide ==
    /\ bp.pc = "add"
    /\ bp.idx < Len(bp.outline.slides)
    /\ bp' = place_add(bp)
    /\ UNCHANGED <<fx, zp, rb, rq>>

InsertPicture ==
    /\ bp.pc = "pictures"
    /\ bp.queue # <<>>
    /\ bp' = place_picture(bp)
    /\ UNCHANGED <<fx, zp, rb, rq>>

FallbackPicture ==
    /\ bp.pc = "fallback"
    /\ bp' = place_fallback(bp)
    /\ UNCHANGED <<fx, zp, rb, rq>>

WriteText ==
    /\ \/ bp.pc = "pictures" /\ bp.queue = <<>>
       \/ bp.pc = "text"
    /\ bp' = place_text(bp)
    /\ UNCHANGED <<fx, zp, rb, rq>>

SavePlaced ==
    /\ bp.pc = "add"
    /\ bp.idx >= Len(bp.outline.slides)
    /\ bp' = place_save(bp)
    /\ UNCHANGED <<fx, zp, rb, rq>>

NextPlace ==
    \/ HarvestPictures
    \/ ClearAndTitle
    \/ AddPlacedSlide
    \/ InsertPicture
    \/ FallbackPicture
    \/ WriteText
    \/ SavePlaced

SpecPlace == InitPlace /\ [][NextPlace]_vars

\* ------------------------------------------------------------ char budget
\* _split_by_char_budget applied to a title and a list of bullets.

\* The most bullets of one call.
MaxBudgetBullets == 4

\* Bullets: an empty one, a short one, one with blanks around it, long ones that fill
\* the budget by twos and threes, and one that is over the budget alone.
BudgetBullets ==
    {<<>>, S("ok"), S(" padded "), Rep("m", 300), Rep("w", 500),
     Rep("h", MAX_CHARS_PER_SLIDE + 1)}

BudgetTitles == {S("Plan"), S("Overview")}

FxBudget(t, bs) == [stage |-> "bullets", title |-> t, bullets |-> bs, parts |-> <<>>]

InitBudget ==
    /\ fx \in {FxBudget(t, bs) :
                  t \in BudgetTitles,
                  bs \in UNION {[1..n -> BudgetBullets] : n \in 0..MaxBudgetBullets}}
    /\ zp = ZpIdle
    /\ rb = RbIdle
    /\ rq = RqIdle
    /\ bp = BpIdle

SplitByCharBudget ==
    /\ fx.stage = "bullets"
    /\ fx' = [fx EXCEPT !.stage = "split",
                        !.parts = split_by_char_budget(fx.title, fx.bullets)]
    /\ UNCHANGED <<zp, rb, rq, bp>>

NextBudget == SplitByCharBudget

SpecBudget == InitBudget /\ [][NextBudget]_vars

\* ------------------------------------------------------------- requests
\* The three POST endpoints. A request goes through its handler step by step; a finished
\* preview or generate request is then sent once more with another api_key, everything
\* else the same.

U_Good == Upload(40000, PlainZip(<<E_ContentTypes, E_Presentation>>), Some(T_Plain))
U_AtLimit == Upload(MAX_FILE_MB * 1024 * 1024, PlainZip(<<E_ContentTypes, E_Presentation>>),
                    Some(T_Plain))
U_TooLarge == Upload(MAX_FILE_MB * 1024 * 1024 + 1,
                     PlainZip(<<E_ContentTypes, E_Presentation>>), Some(T_Plain))
U_NotZip == Upload(12, Zip(FALSE, <<>>, 0), None)
U_Bomb == Upload(5000, PlainZip(<<E_ContentTypes, E_Presentation, E_ZeroCompressed>>), Some(T_Plain))
U_Unloadable == Upload(40000, PlainZip(<<E_ContentTypes, E_Presentation, E_Empty>>), None)
Uploads == {U_Good, U_AtLimit, U_TooLarge, U_NotZip, U_Bomb, U_Unloadable}

Filenames ==
    {None, Some(S("deck.pptx")), Some(S("Theme.POTX")), Some(S("notes.txt")),
     Some(S(".pptx"))}

Clock == S("20240131-235959")

DocNote ==
    <<Heading(S("Plan")), BulletList(<<Item(S("ship"), <<>>), Item(S("grow"), <<>>)>>)>>
DocTalk == <<Para(S("Hire the team. Growth of the market."))>>

\* Requests that differ in the template and its name.
TemplateRequests ==
    {Req(e, f, Some(u), DocNote, None, DEFAULT_PROVIDER, None, Some(S("false")), None,
         Some(S("false")), Clock) :
        e \in {"generate", "template_info"}, f \in Filenames, u \in Uploads}

\* Requests that differ in what they ask of the outline producer.
OutlineRequests ==
    {Req("generate", Some(S("deck.pptx")), Some(U_Good), DocNote, None, DEFAULT_PROVIDER,
         Some(K1), Some(S("false")), None, Some(S("false")), Clock),
     Req("generate", Some(S("deck.pptx")), Some(U_Good), DocTalk, Some(S("investor pitch")),
         <<>>, Some(K1), Some(S("on")), Some(3), Some(S(" TRUE ")), Clock),
     Req("generate", None, Some(U_Unloadable), DocNote, None, DEFAULT_PROVIDER,
         Some(K2), None, Some(0), None, Clock),
     Req("preview_outline", None, None, DocNote, None, DEFAULT_PROVIDER, Some(K1),
         Some(S("false")), None, None, Clock),
     Req("preview_outline", None, None, DocSecrets, Some(S("executive summary")),
         S(" Anthropic "), Some(K2), Some(S("Yes")), Some(5), None, Clock),
     Req("preview_outline", None, None, DocNote, None, DEFAULT_PROVIDER, None,
         Some(S("1")), None, None, Clock),
     Req("preview_outline", None, None, DocNote, None, DEFAULT_PROVIDER, Some(<<>>),
         Some(S("false")), None, None, Clock)}

\* The orders in which a process can list ALLOWED_EXTS.
ExtOrders == {<<S(".pptx"), S(".potx")>>, <<S(".potx"), S(".pptx")>>}

Init ==
    /\ rq \in {RqStart(r, 0, o) :
                  r \in {t \in TemplateRequests \cup OutlineRequests :
                            Len(RawText(t.text)) <= MAX_TEXT_CHARS},
                  o \in ExtOrders}
    /\ rq.exts = <<S(".pptx"), S(".potx")>> \/ template_ext(rq.req.filename) \notin ALLOWED_EXTS
    /\ fx = FxIdle
    /\ zp = ZpIdle
    /\ rb = RbIdle
    /\ bp = BpIdle

CheckExtension ==
    /\ rq.pc = "ext"
    /\ rq' = IF template_ext(rq.req.filename) \notin ALLOWED_EXTS
             THEN finish(rq, Response(400, unsupported_type_detail(template_ext(rq.req.filename),
                                                                   rq.exts), None, <<>>))
             ELSE [rq EXCEPT !.ran = Append(@, "ext_ok"), !.pc = "size"]
    /\ UNCHANGED <<fx, zp, rb, bp>>

CheckSize ==
    /\ rq.pc = "size"
    /\ rq' = IF too_large(rq.req.template[1])
             THEN finish(rq, Response(413, too_large_detail(rq.req.endpoint, rq.req.template[1]),
                                      None, <<>>))
             ELSE [rq EXCEPT !.ran = Append(@, "size_ok"), !.pc = "safe"]
    /\ UNCHANGED <<fx, zp, rb, bp>>

CheckSafe ==
    /\ rq.pc = "safe"
    /\ rq' = IF ~is_safe_pptx(rq.req.template[1], MAX_ZIP_ENTRIES, MAX_ZIP_MEMBER_MB,
                              MAX_ZIP_TOTAL_MB, MAX_COMPRESSION_RATIO)
             THEN finish(rq, Response(400, S("Invalid or unsafe PowerPoint file."), None, <<>>))
             ELSE [rq EXCEPT !.ran = Append(@, "safe_ok"),
                             !.pc = IF rq.req.endpoint = "template_info" THEN "analyze"
                                    ELSE "produce"]
    /\ UNCHANGED <<fx, zp, rb, bp>>

AnalyzeTemplate ==
    /\ rq.pc = "analyze"
    /\ rq' = Let(analyze_template(rq.req.template[1]), LAMBDA info :
                 finish([rq EXCEPT !.ran = Append(@, "analyze_template")],
                        IF info.ok THEN Response(200, <<>>, Some(info.v), <<>>)
                        ELSE INTERNAL_ERROR))
    /\ UNCHANGED <<fx, zp, rb, bp>>

\* try: if api_key: plan_slides_via_llm(...) up to its first HTTP call, else
\* heuristic_outline(...)
ProduceOutline ==
    /\ rq.pc = "produce"
    /\ rq' = IF OrEmpty(rq.req.api_key) = <<>> THEN use_heuristic(rq)
             ELSE Let(plan_slides_refusal(IF rq.req.provider = <<>> THEN DEFAULT_PROVIDER
                                          ELSE rq.req.provider, rq.req.api_key[1]),
                      LAMBDA refusal :
                          IF refusal # None
                          THEN on_llm_exception([rq EXCEPT !.ran = Append(@, "plan_slides_via_llm")],
                                                refusal[1])
                          ELSE [rq EXCEPT !.ran = Append(@, "plan_slides_via_llm"),
                                          !.pc = "chat"])
    /\ rb' = IF rq'.pc = "chat"
             THEN RbStart(MAX_RETRIES, [api |-> "chat", api_key |-> rq.req.api_key[1]])
             ELSE rb
    /\ UNCHANGED <<fx, zp, bp>>

\* The outcome of a step of the LLM path, taken into the request.
llm_step(q, b, r) ==
    IF r.k = "responses" THEN [q EXCEPT !.pc = "responses"]
    ELSE IF r.k = "exc"
    THEN on_llm_exception([q EXCEPT !.provider_text =
                                        IF b.resp = None THEN @ ELSE Some(b.resp[1].text)],
                          r.text)
    ELSE [q EXCEPT !.outline_dict = Some(r.v), !.pc = "respond"]

ChatResult ==
    /\ rq.pc = "chat"
    /\ rb.pc \in {"returned", "raised"}
    /\ rq' = llm_step(rq, rb, chat_result(rb, bool_from_form(rq.req.include_notes)))
    /\ rb' = IF rq'.pc = "responses"
             THEN RbStart(MAX_RETRIES, [api |-> "responses", api_key |-> rq.req.api_key[1]])
             ELSE RbIdle
    /\ UNCHANGED <<fx, zp, bp>>

ResponsesResult ==
    /\ rq.pc = "responses"
    /\ rb.pc \in {"returned", "raised"}
    /\ rq' = llm_step(rq, rb, responses_result(rb, bool_from_form(rq.req.include_notes)))
    /\ rb' = RbIdle
    /\ UNCHANGED <<fx, zp, bp>>

Respond ==
    /\ rq.pc = "respond"
    /\ rq' = respond(rq)
    /\ UNCHANGED <<fx, zp, rb, bp>>

\* The finished request is sent again, with another api_key.
Replay ==
    /\ rq.pc = "done"
    /\ rq.prev = None
    /\ rq.req.endpoint # "template_info"
    /\ \E key \in {None, Some(K1), Some(K2)} \ {rq.req.api_key} :
          rq' = [RqStart([rq.req EXCEPT !.api_key = key], rq.seed, rq.exts)
                    EXCEPT !.prev = Some([api_key |-> rq.req.api_key,
                                          llm_failed |-> rq.llm_failed,
                                          response |-> rq.response[1]])]
    /\ UNCHANGED <<fx, zp, rb, bp>>

Next ==
    \/ CheckExtension
    \/ CheckSize
    \/ CheckSafe
    \/ AnalyzeTemplate
    \/ ProduceOutline
    \/ AttemptReturns
    \/ AttemptFails
    \/ RaiseAfterRetries
    \/ ChatResult
    \/ ResponsesResult
    \/ Respond
    \/ Replay

Spec == Init /\ [][Next]_vars

\* ------------------------------------------------------------------ claims

BulletsWithin(slides, cap, limit) ==
    \A i \in 1..Len(slides) :
        /\ Len(slides[i].bullets) <= cap
        /\ \A j \in 1..Len(slides[i].bullets) : Len(slides[i].bullets[j]) <= limit
        /\ NoDup(slides[i].bullets)

\* C1: whatever the text (the empty one included), the guidance and the notes flag, the
\* outline heuristic_outline returns has between MIN_SLIDES and MAX_SLIDES slides, a
\* non-empty title, and an estimated_slide_count equal to its number of slides.
C1_ParserOutlineShape ==
    fx.parsed # None =>
        LET o == fx.parsed[1]
        IN /\ MIN_SLIDES <= Len(o.slides)
           /\ Len(o.slides) <= MAX_SLIDES
           /\ o.title # <<>>
           /\ o.estimated_slide_count = Len(o.slides)

C1_Witness ==
    /\ fx.parsed # None
    /\ fx.doc = DocEmpty
    /\ Len(fx.parsed[1].slides) = MIN_SLIDES

\* C2: every slide heuristic_outline returns and every slide of a validated Outline has at
\* most 7 bullets, no bullet longer than the limit (160 in the parser, 200 in the
\* validator) and no bullet twice.
C2_BulletBounds ==
    /\ fx.parsed # None =>
          BulletsWithin(fx.parsed[1].slides, PARSER_MAX_BULLETS_PER_SLIDE, MAX_CHARS_PER_BULLET)
    /\ fx.validated # None =>
          BulletsWithin(fx.validated[1].slides, MAX_BULLETS_PER_SLIDE, MAX_BULLET_CHARS)

C2_Witness ==
    /\ fx.validated # None
    /\ fx.outline_dict = Some(RawMessy)
    /\ Len(fx.validated[1].slides[1].bullets) = MAX_BULLETS_PER_SLIDE
    /\ \E j \in 1..MAX_BULLETS_PER_SLIDE :
          Len(fx.validated[1].slides[1].bullets[j]) = MAX_BULLET_CHARS

\* C3: after validation estimated_slide_count equals the number of slides, also when the
\* input declared another count.
C3_CountMatchesSlides ==
    fx.validated # None =>
        fx.validated[1].estimated_slide_count = Len(fx.validated[1].slides)

\* C4: validation is idempotent: validating the dump of a validated outline is accepted and
\* gives the same title, slides (title, bullets, layout, notes) and estimated_slide_count.
C4_ValidationIdempotent ==
    fx.revalidated # None =>
        /\ fx.revalidated[1].ok
        /\ fx.revalidated[1].v = fx.validated[1]

C4_Witness ==
    /\ fx.revalidated # None
    /\ fx.outline_dict = Some(RawMessy)
    /\ Len(fx.validated[1].title) = MAX_TITLE_CHARS

\* C5: the target-count normalizer is idempotent: a second _enforce_target_slides with the
\* same target returns what the first one returned.
C5_EnforceIdempotent ==
    (fx.stage = "done" /\ fx.target # None) => fx.renormalized = fx.normalized

\* The steps C6 is about, as the handlers record them.
GuardedSteps ==
    {"plan_slides_via_llm", "heuristic_outline", "analyze_template", "build_presentation"}

\* The three conditions on the template of a request.
TemplateAccepted(r) ==
    /\ template_ext(r.filename) \in ALLOWED_EXTS
    /\ r.template[1].len <= MAX_FILE_MB * 1024 * 1024
    /\ is_safe_pptx(r.template[1], MAX_ZIP_ENTRIES, MAX_ZIP_MEMBER_MB, MAX_ZIP_TOTAL_MB,
                    MAX_COMPRESSION_RATIO)

\* C6: in /api/generate and /api/template_info no outline producer, no analyze_template and
\* no build_presentation runs unless the extension was accepted, then the size was within
\* the limit, then is_safe_pptx returned True; a request that fails one of the three ends
\* with 400 or 413 and runs none of those steps.
C6_ChecksBeforeWork ==
    rq.req.endpoint \in {"generate", "template_info"} =>
        /\ \A i \in 1..MinOf(3, Len(rq.ran)) : rq.ran[i] = <<"ext_ok", "size_ok", "safe_ok">>[i]
        /\ \A i \in 1..Len(rq.ran) :
              rq.ran[i] \in GuardedSteps => (i > 3 /\ TemplateAccepted(rq.req))
        /\ (rq.pc = "done" /\ ~TemplateAccepted(rq.req)) =>
              /\ rq.response[1].status \in {400, 413}
              /\ \A i \in 1..Len(rq.ran) : rq.ran[i] \notin GuardedSteps

C6_Witness ==
    /\ rq.pc = "done"
    /\ rq.req.endpoint = "generate"
    /\ rq.req.template = Some(U_AtLimit)
    /\ rq.ran = <<"ext_ok", "size_ok", "safe_ok", "heuristic_outline", "build_presentation">>
    /\ rq.response[1].status = 200

\* The size ratio of an entry is within max_ratio; an entry recorded with no compressed
\* bytes but with content is beyond every ratio.
RatioWithin(info, max_ratio) ==
    IF info.compress_size > 0 THEN ~ratio_above(info, max_ratio) ELSE info.file_size = 0

\* C7: is_safe_pptx returns True only if the bytes are a well-formed zip, it holds
\* '[Content_Types].xml' and a presentation root, it has at most max_entries entries, every
\* non-directory entry is within the per-entry ceiling, the total uncompressed size is within
\* the aggregate ceiling, and every entry's uncompressed-to-compressed ratio is within
\* max_ratio, entries recorded with a compressed size of 0 and content included.
C7_SafeOnlyWithinLimits ==
    zp.verdict = Some(TRUE) =>
        LET z == zp.template_bytes[1].zip
        IN /\ z.wellformed
           /\ \E i \in 1..Len(z.entries) : z.entries[i].name = S("[Content_Types].xml")
           /\ \E i \in 1..Len(z.entries) :
                 EndsWith(z.entries[i].name, S("ppt/presentation.xml"))
           /\ Len(z.entries) + z.fillers <= MAX_ZIP_ENTRIES
           /\ \A i \in 1..Len(z.entries) :
                 ~is_dir(z.entries[i]) =>
                     z.entries[i].file_size <= MAX_ZIP_MEMBER_MB * 1024 * 1024
           /\ total_uncompressed(z.entries, Len(z.entries)) + z.fillers
                 <= MAX_ZIP_TOTAL_MB * 1024 * 1024
           /\ \A i \in 1..Len(z.entries) : RatioWithin(z.entries[i], MAX_COMPRESSION_RATIO)

BUILD_FAILED == S("Failed to build PowerPoint from the provided template.")

\* The request ended well, or with the error of a template that cannot be built on.
EndedWellOrBuildFailed ==
    \/ rq.response[1].status = 200
    \/ /\ rq.req.endpoint = "generate"
       /\ ~rq.req.template[1].loadable
       /\ rq.response[1] = Response(500, BUILD_FAILED, None, <<>>)

\* C8: when an API key is supplied and the LLM path fails in any way, the endpoint returns
\* no error for that: it takes the outline heuristic_outline gives for the same text,
\* guidance and notes flag, and goes on.
C8_FallbackOnLlmFailure ==
    /\ rq.exc # None =>
          /\ OrEmpty(rq.req.api_key) # <<>>
          /\ rq.llm_failed
          /\ rq.pc \in {"respond", "done"}
          /\ rq.outline_dict =
                Some(AsRaw(heuristic_outline(rq.req.text, OrEmpty(rq.req.guidance),
                                             bool_from_form(rq.req.include_notes), rq.seed)))
    /\ (rq.pc = "done" /\ \E i \in 1..Len(rq.ran) : rq.ran[i] = "plan_slides_via_llm") =>
          EndedWellOrBuildFailed

C8_Witness ==
    /\ rq.pc = "done"
    /\ rq.req.endpoint = "generate"
    /\ rq.req.api_key = Some(K1)
    /\ rq.exc = Some(S("OpenAI-compatible error (responses): 401 Incorrect API key provided: ")
                     \o K1)
    /\ rq.response[1].status = 200

\* The attempts of a call are capped, a returned response is the last one received and is
\* neither 429 nor 5xx, and the sleeps between attempts grow.
C9_Bounded ==
    /\ rb.attempt <= MinOf(3, MaxOf(1, rb.max_retries))
    /\ rb.pc = "returned" => (rb.resp = rb.last /\ returns_now(rb.last[1]))
    /\ rb.pc = "raised" => (rb.attempt = MinOf(3, MaxOf(1, rb.max_retries))
                            /\ ~returns_now(rb.last[1]))
    /\ \A i, j \in 1..(rb.attempt - 1) : i < j => rb.slept[i] < rb.slept[j]

\* An attempt is made only first or after a failed one, a good response ends the call at
\* once, nothing happens after the return or the raise, and the raise follows the last
\* failed attempt.
C9_Step ==
    /\ rb'.attempt # rb.attempt =>
          /\ rb'.attempt = rb.attempt + 1
          /\ rb.pc = "loop"
          /\ rb.attempt > 0 => ~returns_now(rb.last[1])
          /\ returns_now(rb'.last[1]) => rb'.pc = "returned"
          /\ ~returns_now(rb'.last[1]) => rb'.pc = "loop"
    /\ rb.pc \in {"returned", "raised"} => rb' = rb
    /\ rb'.pc = "raised" => rb.pc \in {"loop", "raised"}

\* C9: _request_with_backoff makes at most min(3, max(1, MAX_RETRIES)) attempts, makes a
\* further attempt only after an exception or a 429/5xx response, returns the first response
\* below 500 other than 429 without a further attempt, sleeps strictly longer between later
\* attempts, and after the last failed attempt ends by raising.
C9_BackoffContract ==
    /\ []C9_Bounded
    /\ [][C9_Step]_vars
    /\ <>(rb.pc \in {"returned", "raised"})

C9_Witness ==
    /\ rb.pc = "raised"
    /\ rb.max_retries = MaxRetriesSetting
    /\ rb.attempt = 3
    /\ rb.slept = <<0, 7, 16>>
    /\ rb.raised = Some(S("LLM request failed after retries."))

\* No outline came from the LLM: there was no key, or the LLM path failed.
NoLlmOutline(api_key, llm_failed) == llm_failed \/ OrEmpty(api_key) = <<>>

\* The texts a response carries: its detail, its file name, and the texts of its outline.
ResponseTexts ==
    {rq.response[1].detail, rq.response[1].filename}
    \cup (IF rq.outline = None THEN {}
          ELSE {rq.outline[1].title}
               \cup UNION {{rq.outline[1].slides[i].title,
                            OrEmpty(rq.outline[1].slides[i].notes)}
                           \cup Range(rq.outline[1].slides[i].bullets) :
                           i \in 1..Len(rq.outline[1].slides)})

\* What must stay inside: the key, the exception text, the provider's last body.
Secrets == {rq.req.api_key[1], rq.exc[1]} \cup Range(rq.provider_text)

\* C10: the response of a request whose LLM path failed does not depend on the api_key or
\* on the failure: it equals the response of the same request with another key and another
\* failure and that of the same request without a key, and it carries no exception text,
\* no provider body and no key.
C10_FailureTellsNothing ==
    rq.pc = "done" =>
        /\ ( /\ rq.prev # None
             /\ NoLlmOutline(rq.prev[1].api_key, rq.prev[1].llm_failed)
             /\ NoLlmOutline(rq.req.api_key, rq.llm_failed) ) =>
                 rq.response[1] = rq.prev[1].response
        /\ rq.llm_failed =>
              \A t \in ResponseTexts : \A secret \in Secrets : ~Contains(t, secret)

C10_Witness ==
    /\ rq.pc = "done"
    /\ rq.llm_failed
    /\ rq.prev # None
    /\ rq.prev[1].llm_failed
    /\ rq.prev[1].api_key = Some(K1)
    /\ rq.req.api_key = Some(K2)
    /\ Contains(rq.exc[1], K2)
    /\ rq.response[1].status = 200
    /\ rq.response[1] = rq.prev[1].response

\* C11: For every template with at least one layout and any number of slides of its own,
\* and every validated outline, the package that build_presentation saves has exactly
\* 1 + len(outline.slides) slides, the title slide first and then one slide per outline
\* slide in outline order, and none of the template's slides or of the relationships to
\* them is left in it.
C11_OnlyTheBuiltSlides ==
    bp.pc = "saved" =>
        LET pkg == bp.saved[1]
            n == Len(bp.outline.slides)
        IN  /\ Len(pkg.slides) = 1 + n
            /\ Cardinality(pkg.slide_parts) = 1 + n
            /\ \A i \in 1..Len(pkg.slides) : pkg.slides[i] = SlidePart(FALSE, i)
            /\ Len(pkg.built) = 1 + n
            /\ \A i \in 1..Len(pkg.built) : pkg.built[i].of = i - 1
            /\ \A p \in pkg.slide_parts : ~p.orig
            /\ \A k \in DOMAIN bp.part.rels : bp.part.rels[k] # MasterPart
                                              => ~bp.part.rels[k].orig

\* The layout at position j may serve a request for the layout named name.
Serves(b, j, name) ==
    /\ Lower(b.template.slide_layouts[j].name) = Lower(name)
    /\ capability_ok(name,
                     layout_capabilities(b.template.slide_layouts[j], b.PP_PLACEHOLDER)[1],
                     layout_capabilities(b.template.slide_layouts[j], b.PP_PLACEHOLDER)[2])

\* C12: A slide that requests a layout other than auto is built on a layout of that name
\* (in any case of letters) whenever the template has one that satisfies the capability
\* requirement of the name, wherever the layouts of the fallback chain stand in the
\* template's layout order.
C12_RequestedNameFirst ==
    \A i \in 1..Len(bp.slides) :
        LET sl == bp.slides[i] IN
        (/\ sl.of > 0
         /\ bp.outline.slides[sl.of].layout # L_auto
         /\ \E j \in 1..Len(bp.template.slide_layouts) :
               Serves(bp, j, bp.outline.slides[sl.of].layout))
        => Serves(bp, sl.layout, bp.outline.slides[sl.of].layout)

\* A built slide whose outline slide asks for Two Content, on a template where every
\* layout has fewer than two text-capable placeholders.
TwoContentUnserved(b, sl) ==
    /\ sl.of > 0
    /\ b.outline.slides[sl.of].layout = L_TwoContent
    /\ \A j \in 1..Len(b.template.slide_layouts) :
          layout_capabilities(b.template.slide_layouts[j], b.PP_PLACEHOLDER)[1] < 2

NamedTwoContent(b, j) == Lower(b.template.slide_layouts[j].name) = Lower(L_TwoContent)

\* C13 as stated: When a slide requests Two Content and every layout of the template has
\* fewer than two text-capable placeholders, the layout finally used for the slide is
\* never one named Two Content.
C13_NeverOnTwoContent ==
    \A i \in 1..Len(bp.slides) :
        TwoContentUnserved(bp, bp.slides[i]) => ~NamedTwoContent(bp, bp.slides[i].layout)

\* C13: When a slide requests Two Content and every layout of the template has fewer than
\* two text-capable placeholders, find_preferred_layout never returns a layout named
\* Two Content for it; the slide is built on such a layout only when
\* find_preferred_layout returned nothing and that layout is the default content layout.
C13_TwoContentOnlyAsDefault ==
    \A i \in 1..Len(bp.slides) :
        LET sl == bp.slides[i] IN
        TwoContentUnserved(bp, sl) =>
            /\ sl.preferred # None => ~NamedTwoContent(bp, sl.preferred[1])
            /\ NamedTwoContent(bp, sl.layout) =>
                  sl.preferred = None /\ sl.layout = bp.content_layout_idx

\* A slide asked for Two Content on a template of two layouts, none with two text regions;
\* find_preferred_layout found nothing and the slide went to the default content layout,
\* which is named Two Content.
C13_Witness ==
    /\ bp.pc = "saved"
    /\ \E i \in 1..Len(bp.slides) :
          /\ TwoContentUnserved(bp, bp.slides[i])
          /\ bp.slides[i].preferred = None
          /\ NamedTwoContent(bp, bp.slides[i].layout)
    /\ Len(bp.template.slide_layouts) = 2

\* A raw outline has a key that the schema does not know, at the top or in a slide.
UnknownField(raw) ==
    \/ raw.extra
    \/ \E i \in 1..Len(slide_items(raw.slides)) :
          slide_items(raw.slides)[i].k = "dict" /\ slide_items(raw.slides)[i].extra

\* C14: Outline validation is total over JSON-shaped input with only known fields:
\* whatever dict, list, string, number or null (or nothing) stands for the title, the
\* slides, the declared count and each slide's title, bullets, layout and notes,
\* Outline(**raw) returns an Outline; it raises only when an unknown top-level or
\* slide-level field is present.
C14_TotalOverKnownFields ==
    fx.stage = "rejected" => UnknownField(fx.outline_dict[1])

\* C15: no bullet of the outline that heuristic_outline returns holds an email address,
\* an 'sk-' key of 16 or more alphanumerics or an http(s) URL of the input text: each is
\* replaced by the redaction marker, whichever path made the bullet (markdown
\* extraction, archetype bucketing, generic chunking, min-slide splitting).
C15_NoSecretInBullets ==
    fx.parsed # None =>
        \A i \in 1..Len(fx.parsed[1].slides) :
            \A j \in 1..Len(fx.parsed[1].slides[i].bullets) :
                \A t \in PlantedSecrets :
                    Contains(RawText(fx.doc), t)
                        => ~Contains(fx.parsed[1].slides[i].bullets[j], t)

\* The slides `out` are what growing the slides `inp` gives: every slide of inp in order,
\* whole or cut to its first three bullets and then followed by '(cont.)' slides that
\* carry its next bullets three at a time, and after the last of them only empty slides
\* titled by their position (the first of `out` stands at position pos).
RECURSIVE GrownFrom(_, _, _)
GrownFrom(inp, out, pos) ==
    IF inp = <<>>
    THEN \A p \in 1..Len(out) :
            out[p].bullets = <<>> /\ out[p].title = S("Slide ") \o IntToStr(pos + p - 1)
    ELSE /\ out # <<>>
         /\ out[1].title = inp[1].title
         /\ out[1].layout = inp[1].layout
         /\ \/ /\ out[1].bullets = inp[1].bullets
               /\ GrownFrom(Tail(inp), Tail(out), pos + 1)
            \/ /\ Len(inp[1].bullets) > 3
               /\ out[1].bullets = Take(inp[1].bullets, 3)
               /\ \E c \in 1..(Len(out) - 1) :
                     /\ \A k \in 1..c :
                           /\ out[1 + k].title = inp[1].title \o S(" (cont.)")
                           /\ out[1 + k].bullets # <<>>
                           /\ out[1 + k].bullets =
                                 Take(Drop(inp[1].bullets, 3 * k), 3)
                     /\ GrownFrom(Tail(inp), Drop(out, 1 + c), pos + 1 + c)

\* What _ensure_min_slides is said to return for the limits lim = <<min, max>>.
EnsuredAsSaid(inp, out, lim) ==
    /\ Len(out) = MinOf(lim[2], MaxOf(lim[1], Len(inp)))
    /\ Len(inp) >= lim[1] => out = Take(inp, lim[2])
    /\ Len(inp) < lim[1] => GrownFrom(inp, out, 1)

ListDepth(tokens, i) ==
    Cardinality({k \in 1..(i - 1) : tokens[k].type \in {"bullet_list_open", "ordered_list_open"}})
    - Cardinality({k \in 1..(i - 1) :
                     tokens[k].type \in {"bullet_list_close", "ordered_list_close"}})

\* C17: during the pass over the token stream, whenever a list item is captured the
\* list_level counter equals the nesting depth of the item, so that an item two or more
\* levels deep gets the sub-bullet marker and an item of depth 1 gets none.
C17_LevelIsDepth ==
    (/\ fx.stage = "tokens"
     /\ fx.pass.i <= Len(md_parse(fx.doc))
     /\ md_parse(fx.doc)[fx.pass.i].type = "list_item_open") =>
        fx.pass.list_level = ListDepth(md_parse(fx.doc), fx.pass.i)

\* The slides of an outline that carry bullets.
ContentSlides(o) == SelectSeq(o.slides, LAMBDA sl : sl.bullets # <<>>)

\* The text has no heading for pass 1 to take a title from.
NoRealTitle(fx_) ==
    /\ \A blk \in Range(fx_.doc) : blk.b # "heading"
    /\ \A sl \in Range(Pass1(md_parse(fx_.doc), layout_bias_from_guidance(fx_.guidance),
                          fx_.include_notes)) :
        sl.title \in {S("Overview"), S("Slide")}

\* C18: for a text without heading and a guidance without archetype, the content slides
\* of the result are the generic chunks: one slide per group of sentences, titled
\* 'Section N', and as many groups as the estimated target count.
C18_GenericChunks ==
    (/\ fx.stage = "produced"
     /\ fx.parsed # None
     /\ Strip(RawText(fx.doc)) # <<>>
     /\ NoRealTitle(fx)
     /\ detect_archetype(fx.guidance) = "none") =>
        {sl.title : sl \in Range(ContentSlides(fx.parsed[1]))}
            = {S("Section ") \o IntToStr(n) : n \in 1..approx_slides(RawText(fx.doc))}

\* The sentence s has a hint of the section sec.
HasHint(s, sec) == AnyIn(Lower(s), HintsOf(Lower(sec)))

\* sec is the first section, in the order of the archetype, that s has a hint of.
FirstHinted(s, sec, sections) ==
    /\ HasHint(s, sec)
    /\ \A k \in 1..(IndexOf(sections, sec) - 1) : ~HasHint(s, sections[k])

\* The bullet that a sentence becomes: cut to MAX_CHARS_PER_BULLET and redacted.
AsBullet(s) ==
    scrub_sensitive(truncate(Strip(truncate(s, MAX_CHARS_PER_BULLET)), MAX_CHARS_PER_BULLET))

\* The sentence s is a bullet of a slide of section sec or of its continuation.
InSection(o, s, sec) ==
    \E sl \in Range(o.slides) :
        /\ sl.title \in {sec, sec \o S(" (cont.)")}
        /\ AsBullet(s) \in Range(sl.bullets)

\* The request is one for the investor archetype on a text without headings.
InvestorCase ==
    /\ fx.stage = "produced"
    /\ fx.parsed # None
    /\ detect_archetype(fx.guidance) = "investor"
    /\ NoRealTitle(fx)

KeptSentences == 6

C20_SameOutlineInEveryProcess ==
    (fx.stage = "produced" /\ fx.parsed # None) =>
        \A sd \in 0..MaxSeed :
            heuristic_outline(fx.doc, fx.guidance, fx.include_notes, sd) = fx.parsed[1]

\* The bullets of the slides, one after the other.
AllBullets(slides) == Flatten([i \in 1..Len(slides) |-> slides[i].bullets])

\* The slides of heuristic_outline before its _ensure_min_slides.
CleanedSlides(fx_) ==
    Let(layout_bias_from_guidance(fx_.guidance), LAMBDA bias :
        cleanup(with_disclaimer(with_fallback(Pass1(md_parse(fx_.doc), bias,
                                                    fx_.include_notes),
                                              RawText(fx_.doc), fx_.guidance, fx_.seed,
                                              bias, fx_.include_notes),
                                RawText(fx_.doc), fx_.include_notes),
                fx_.include_notes))

\* C21: when the parser splits a dense slide to reach MIN_SLIDES, no bullet is lost: the
\* bullets beyond the first three of the slide are, in order, in continuation slides, and
\* the bullets of the output slides, one after the other, are those of the slides before
\* the split.
C21_ParserSplitKeepsBullets ==
    (/\ fx.stage = "produced"
     /\ fx.parsed # None
     /\ Len(CleanedSlides(fx)) < MIN_SLIDES) =>
        AllBullets(fx.parsed[1].slides) = AllBullets(CleanedSlides(fx))

\* C22: _ensure_min_slides of the request pipeline conserves bullets: for an input of at
\* most max_slides slides the bullets of the output slides, one after the other, are
\* those of the input slides, also when the minimum is reached in the middle of the
\* split of a slide.
C22_EnsureKeepsBullets ==
    (/\ fx.stage = "normalized"
     /\ fx.limits # None
     /\ Len(fx.validated[1].slides) <= fx.limits[1][2]) =>
        AllBullets(fx.normalized[1].slides)
            = AllBullets(normalize_slides(fx.validated[1].slides))

\* No slide follows a slide whose title its own title starts with.
NoContinuationPair(slides) ==
    \A i \in 1..(Len(slides) - 1) : ~StartsWith(slides[i + 1].title, slides[i].title)

\* C23: given a target below the current count, _enforce_target_slides merges every slide
\* whose title starts with the title of the slide before it into that slide, so that
\* after the merge pass no slide follows a slide whose title its title starts with (a
\* chain 'A', 'A (cont.)', 'A (cont.)' becomes one slide); only then the excess is cut
\* from the end.
C23_MergeLeavesNoContinuation ==
    (/\ fx.stage = "normalized"
     /\ fx.target # None
     /\ Len(fx.validated[1].slides) > fx.target[1]) =>
        LET merged == MergeCont(normalize_slides(fx.validated[1].slides), 0, <<>>)
        IN /\ NoContinuationPair(merged)
           /\ fx.normalized[1].slides = Take(merged, fx.target[1])

\* C24: for every outline and every target in 1..max_slides, _enforce_target_slides
\* returns an outline of exactly target slides whose estimated_slide_count is target,
\* for an input of fewer slides than the target and for one of more.
C24_ExactlyTarget ==
    (fx.stage = "normalized" /\ fx.target # None) =>
        /\ Len(fx.normalized[1].slides) = fx.target[1]
        /\ fx.normalized[1].estimated_slide_count = fx.target[1]

\* C25: every outline that the request pipeline hands to build_presentation, after
\* validation and _ensure_min_slides or _enforce_target_slides, keeps the bounds of a
\* validated slide: at most MAX_BULLETS_PER_SLIDE bullets and no bullet twice, also
\* after continuation slides were merged.
C25_HandedOutlineBounded ==
    fx.stage = "normalized" =>
        \A sl \in Range(fx.normalized[1].slides) :
            Len(sl.bullets) <= MAX_BULLETS_PER_SLIDE /\ NoDup(sl.bullets)

\* The slides of a placement build: the finished ones and the one being made
PlacedSlides(b) == b.slides \o (IF b.slide = None THEN <<>> ELSE <<b.slide[1]>>)

\* The rectangle r lies inside the rectangle box
Inside(r, box) ==
    /\ box.left <= r.left
    /\ box.top <= r.top
    /\ r.left + r.width <= box.left + box.width
    /\ r.top + r.height <= box.top + box.height

\* C26: with image reuse, every harvested picture on a generated slide ends at a
\* rectangle that overlaps no text zone of the slide by more than a tenth of its own
\* area, and a picture that was moved lies inside the safe zone chosen for it.
C26_PicturesClearOfText ==
    (bp.pc # "idle" /\ bp.reuse_images) =>
        \A sl \in Range(PlacedSlides(bp)) :
            \A p \in Range(sl.pictures) :
                p.from # None =>
                    /\ ~overlaps_any_text(p.rect, collect_text_zones(sl))
                    /\ p.safe # None => Inside(p.rect, p.safe[1])

\* The first position of x in seq, 0 when it is not there
FirstAt(seq, x) ==
    IF \E i \in 1..Len(seq) : seq[i] = x
    THEN CHOOSE i \in 1..Len(seq) : seq[i] = x /\ \A j \in 1..(i - 1) : seq[j] # x
    ELSE 0

\* The shape at position i of the shape tree is a title or content placeholder
TextBearing(sl, i) ==
    /\ sl.spTree[i][1] = "ph"
    /\ sl.shapes[sl.spTree[i][2]].ptype \in TEXT_ZONE_TYPES

\* C27: the pictures are harvested before the slides are cleared, on every content slide
\* the pictures are inserted before the text is written, and in the shape tree of the
\* finished slide every title or content placeholder is above (after) every inserted
\* picture.
C27_TextAbovePictures ==
    bp.pc # "idle" =>
        /\ (bp.reuse_images /\ FirstAt(bp.log, "clear") > 0) =>
               (FirstAt(bp.log, "harvest") > 0
                /\ FirstAt(bp.log, "harvest") < FirstAt(bp.log, "clear"))
        /\ \A sl \in Range(bp.slides) :
               /\ \A i, j \in 1..Len(sl.events) :
                      (sl.events[i] = "picture" /\ sl.events[j] = "text") => i < j
               /\ \A i, j \in 1..Len(sl.spTree) :
                      (sl.spTree[i][1] = "pic" /\ TextBearing(sl, j)) => i < j

\* The slides that reach the disclaimer step of heuristic_outline
SlidesBeforeDisclaimer(fx_) ==
    Let(layout_bias_from_guidance(fx_.guidance), LAMBDA bias :
        with_fallback(Pass1(md_parse(fx_.doc), bias, fx_.include_notes),
                      RawText(fx_.doc), fx_.guidance, fx_.seed, bias, fx_.include_notes))

\* The text matches the legal or medical keywords and there is a slide to put the
\* disclaimer on
DisclaimerDue(fx_) ==
    /\ fx_.stage = "produced"
    /\ fx_.parsed # None
    /\ Let(Lower(RawText(fx_.doc)), LAMBDA raw_lower :
           likely_legal(raw_lower) \/ likely_medical(raw_lower))
    /\ SlidesBeforeDisclaimer(fx_) # <<>>

\* C28: when the text matches the legal or medical keywords and there is a slide, the
\* outline of heuristic_outline holds the whole disclaimer sentence: at the end of the
\* first slide's notes when notes are requested, otherwise as a bullet of some slide.
C28_DisclaimerPresent ==
    DisclaimerDue(fx) =>
        IF fx.include_notes
        THEN /\ fx.parsed[1].slides # <<>>
             /\ fx.parsed[1].slides[1].notes # None
             /\ EndsWith(fx.parsed[1].slides[1].notes[1], DISCLAIMER)
        ELSE \E sl \in Range(fx.parsed[1].slides) : \E b \in Range(sl.bullets) : b = DISCLAIMER

\* An input slide with neither title text nor a non-empty bullet
EmptyInputSlide(it) ==
    /\ Strip(PyStrOrEmpty(it.title)) = <<>>
    /\ it.bullets.k = "absent" \/ coerce_bullets(it.bullets) = <<>>

\* C29: validation drops every input slide that has neither title text nor bullets, keeps
\* the other slides in order, and puts in one placeholder slide only when none is left.
C29_EmptySlidesDropped ==
    (fx.stage = "validated" /\ fx.outline_dict # None) =>
        Let(SelectSeq(slide_items(fx.outline_dict[1].slides),
                      LAMBDA it : ~EmptyInputSlide(it)),
            LAMBDA kept :
                IF kept = <<>> THEN Len(fx.validated[1].slides) = 1
                ELSE fx.validated[1].slides = MapSeq(kept, LAMBDA it : OutlineSlide(it).v))

\* The shape of the parts that _split_by_char_budget returns for the bullets kept: the
\* parts in order are the kept bullets, no part is empty, every part is within the budget
\* when every kept bullet is, and the titles are the title and then '<title> (cont.)'.
PartitionOf(parts, kept, title) ==
    /\ AllBullets(parts) = kept
    /\ \A i \in 1..Len(parts) : parts[i].bullets # <<>>
    /\ (\A i \in 1..Len(kept) : Len(kept[i]) <= MAX_CHARS_PER_SLIDE) =>
           \A i \in 1..Len(parts) : Len(Flatten(parts[i].bullets)) <= MAX_CHARS_PER_SLIDE
    /\ \A i \in 1..Len(parts) :
           parts[i].title = IF i = 1 THEN title ELSE title \o S(" (cont.)")

\* C30 as stated: the parts partition exactly the non-empty bullets of the input.
C30_PartitionOfNonEmpty ==
    fx.stage = "split" =>
        PartitionOf(fx.parts, SelectSeq(fx.bullets, LAMBDA b : b # <<>>), fx.title)

\* C30: the parts partition the bullets of the input with the blanks around each one
\* removed, leaving out those that are empty then: in order, no part empty, every part
\* within MAX_CHARS_PER_SLIDE when each bullet is, the first part under the title and
\* every later one under '<title> (cont.)'.
C30_PartitionOfStripped ==
    fx.stage = "split" =>
        PartitionOf(fx.parts,
                    SelectSeq(MapSeq(fx.bullets, Strip), LAMBDA b : b # <<>>),
                    fx.title)

\* Three bullets that do not fit one part were split, and a padded bullet was kept
C30_Witness ==
    /\ fx.stage = "split"
    /\ Len(fx.parts) = 2
    /\ fx.bullets = <<Rep("m", 300), S(" padded "), Rep("w", 500), Rep("m", 300)>>
    /\ fx.parts[2].title = fx.title \o S(" (cont.)")

====
